---------------------------- MODULE Spec2Model ----------------------------
(***************************************************************************)
(* A model of the Kiro streaming provider: the retry decision engine       *)
(* (src/src/retry.ts), the thinking-tag segmenter                          *)
(* (src/src/thinking-parser.ts), the bracket tool-call fallback            *)
(* (src/src/bracket-tool-parser.ts) and the attempt/timeout state machine  *)
(* of streamKiro (src/src/stream.ts).                                      *)
(*                                                                         *)
(* Strings are sequences of one-character strings, so that indexOf, slice  *)
(* and startsWith are computed as the code computes them.  Positions are   *)
(* 0-based as in the source; null indices are Null.                        *)
(***************************************************************************)
EXTENDS Integers, Sequences, FiniteSets, TLC

VARIABLES
    cfg,          \* the call's inputs: apiKey present, thinkingEnabled, signal
                  \* already aborted when streamKiro is called
    aborted,      \* options.signal.aborted
    pc,           \* the await at which the producer task is suspended
    retryCount,   \* stream.ts:99
    reductionFactor, \* stream.ts:101, in thousandths
    fetchCount,   \* number of fetch() invocations
    netCount,     \* number of requests fetch() actually sent
    inFlight,     \* a request/response body of this call is open
    resp,         \* the non-ok response being read by response.text()
    lastDelay,    \* the delay of the pending setTimeout of the retry path, 0 when none
    output,       \* the AssistantMessage
    events,       \* what stream.push received, in order
    ended,        \* stream.end() was called
    att,          \* the locals of the current attempt (stream.ts:256-278)
    received,     \* upstream events received so far in this call
    statusRun,    \* history: the failure class every attempt so far ended with
    call          \* harness of the pure functions: last input and result

vars == <<cfg, aborted, pc, retryCount, reductionFactor, fetchCount, netCount,
          inFlight, resp, lastDelay, output, events, ended, att, received,
          statusRun, call>>

streamVars == <<cfg, aborted, pc, retryCount, reductionFactor, fetchCount,
                netCount, inFlight, resp, lastDelay, output, events, ended, att,
                received, statusRun>>

Null == -1

Max(a, b) == IF a >= b THEN a ELSE b
Min(a, b) == IF a <= b THEN a ELSE b

RECURSIVE Pow2(_)
Pow2(n) == IF n <= 0 THEN 1 ELSE 2 * Pow2(n - 1)

(***************************************************************************)
(* String primitives of the platform (String.prototype).                   *)
(***************************************************************************)
Slice(s, a, b) == SubSeq(s, a + 1, b)
SliceFrom(s, a) == SubSeq(s, a + 1, Len(s))

MatchAt(s, pat, i) ==
    /\ i >= 0
    /\ i + Len(pat) <= Len(s)
    /\ \A k \in 1..Len(pat) : s[i + k] = pat[k]

IndexOfFrom(s, pat, from) ==
    LET hits == {i \in Max(from, 0)..(Len(s) - Len(pat)) : MatchAt(s, pat, i)}
    IN  IF hits = {} THEN -1 ELSE CHOOSE i \in hits : \A j \in hits : i <= j

IndexOf(s, pat) == IndexOfFrom(s, pat, 0)
Includes(s, pat) == IndexOf(s, pat) # -1
StartsWith(s, pat) == MatchAt(s, pat, 0)

(***************************************************************************)
(* retry.ts                                                                *)
(***************************************************************************)
exponentialBackoff(attempt, baseMs, maxMs) == Min(baseMs * Pow2(attempt), maxMs)

\* error texts are sequences of words; the patterns are word sequences
TOO_BIG_PATTERNS ==
    { <<"CONTENT_LENGTH_EXCEEDS_THRESHOLD">>,
      <<"Input", "is", "too", "long">>,
      <<"Improperly", "formed">> }

Decision(sr, d, st) == [shouldRetry |-> sr, delayMs |-> d, strategy |-> st]

decideRetryMutNoBudget(status, errorText, attempt, maxRetries) ==
    IF status = 413 \/ (status = 400 /\ \E p \in TOO_BIG_PATTERNS : Includes(errorText, p))
    THEN Decision(TRUE, 0, "reduce")
    ELSE IF status = 429
    THEN Decision(TRUE, exponentialBackoff(attempt, 1000, 30000), "backoff")
    ELSE IF status >= 500 /\ status < 600
    THEN Decision(TRUE, exponentialBackoff(attempt, 1000, 30000), "backoff")
    ELSE IF status = 403
    THEN Decision(TRUE, exponentialBackoff(attempt, 500, 30000), "backoff")
    ELSE Decision(FALSE, 0, "none")

decideRetryMutOffByOne(status, errorText, attempt, maxRetries) ==
    IF attempt > maxRetries THEN Decision(FALSE, 0, "none")
    ELSE IF status = 413 \/ (status = 400 /\ \E p \in TOO_BIG_PATTERNS : Includes(errorText, p))
    THEN Decision(TRUE, 0, "reduce")
    ELSE IF status = 429 \/ (status >= 500 /\ status < 600)
    THEN Decision(TRUE, exponentialBackoff(attempt, 1000, 30000), "backoff")
    ELSE IF status = 403
    THEN Decision(TRUE, exponentialBackoff(attempt, 500, 30000), "backoff")
    ELSE Decision(FALSE, 0, "none")

decideRetryMut403(status, errorText, attempt, maxRetries) ==
    IF attempt >= maxRetries THEN Decision(FALSE, 0, "none")
    ELSE IF status = 413 \/ (status = 400 /\ \E p \in TOO_BIG_PATTERNS : Includes(errorText, p))
    THEN Decision(TRUE, 0, "reduce")
    ELSE IF status = 429 \/ (status >= 500 /\ status < 600) \/ status = 403
    THEN Decision(TRUE, exponentialBackoff(attempt, 1000, 30000), "backoff")
    ELSE Decision(FALSE, 0, "none")

\* decideRetry taking every client error for a rate limit
decideRetryMut4xx(status, errorText, attempt, maxRetries) ==
    IF attempt >= maxRetries THEN Decision(FALSE, 0, "none")
    ELSE IF status = 413 \/ (status = 400 /\ \E p \in TOO_BIG_PATTERNS : Includes(errorText, p))
    THEN Decision(TRUE, 0, "reduce")
    ELSE IF status >= 400 /\ status < 600
    THEN Decision(TRUE, exponentialBackoff(attempt, 1000, 30000), "backoff")
    ELSE Decision(FALSE, 0, "none")

decideRetry(status, errorText, attempt, maxRetries) ==
    IF attempt >= maxRetries THEN Decision(FALSE, 0, "none")
    ELSE IF status = 413 \/ (status = 400 /\ \E p \in TOO_BIG_PATTERNS : Includes(errorText, p))
    THEN Decision(TRUE, 0, "reduce")
    ELSE IF status = 429
    THEN Decision(TRUE, exponentialBackoff(attempt, 1000, 30000), "backoff")
    ELSE IF status >= 500 /\ status < 600
    THEN Decision(TRUE, exponentialBackoff(attempt, 1000, 30000), "backoff")
    ELSE IF status = 403
    THEN Decision(TRUE, exponentialBackoff(attempt, 500, 30000), "backoff")
    ELSE Decision(FALSE, 0, "none")

(***************************************************************************)
(* The produced events and the output message.                             *)
(***************************************************************************)
Ev(type, idx, data) == [type |-> type, contentIndex |-> idx, data |-> data]

TextBlock(t) == [type |-> "text", text |-> t]
ThinkingBlock(t) == [type |-> "thinking", thinking |-> t]

(***************************************************************************)
(* thinking-parser.ts.  A sink s = [p, content, ev] holds the parser's     *)
(* fields p, output.content and the events pushed so far.                  *)
(***************************************************************************)
THINKING_TAG_VARIANTS ==
    << [open  |-> <<"<","t","h","i","n","k","i","n","g",">">>,
        close |-> <<"<","/","t","h","i","n","k","i","n","g",">">>],
       [open  |-> <<"<","t","h","i","n","k",">">>,
        close |-> <<"<","/","t","h","i","n","k",">">>],
       [open  |-> <<"<","r","e","a","s","o","n","i","n","g",">">>,
        close |-> <<"<","/","r","e","a","s","o","n","i","n","g",">">>],
       [open  |-> <<"<","t","h","o","u","g","h","t",">">>,
        close |-> <<"<","/","t","h","o","u","g","h","t",">">>] >>

THINKING_END_TAG == THINKING_TAG_VARIANTS[1].close

MaxOf(S) == CHOOSE m \in S : \A x \in S : x <= m
\* a hold-back one character short of the longest close tag
MAX_CLOSE_TAG_LENMutShort ==
    MaxOf({Len(THINKING_TAG_VARIANTS[i].close) : i \in 1..Len(THINKING_TAG_VARIANTS)}) - 1

MAX_OPEN_TAG_LEN == MaxOf({Len(THINKING_TAG_VARIANTS[i].open) : i \in 1..Len(THINKING_TAG_VARIANTS)})
MAX_CLOSE_TAG_LEN == MaxOf({Len(THINKING_TAG_VARIANTS[i].close) : i \in 1..Len(THINKING_TAG_VARIANTS)})

NewParser ==
    [textBuffer |-> <<>>, inThinking |-> FALSE, thinkingExtracted |-> FALSE,
     thinkingBlockIndex |-> Null, textBlockIndex |-> Null,
     activeEndTag |-> THINKING_END_TAG]

emitTextMutAlwaysStart(s, text) ==
    LET s1 == [s EXCEPT !.p.textBlockIndex =
                            IF @ = Null THEN Len(s.content) ELSE @,
                        !.content = IF s.p.textBlockIndex = Null
                                    THEN Append(@, TextBlock(<<>>)) ELSE @]
        idx == s1.p.textBlockIndex
    IN  [s1 EXCEPT !.content[idx + 1].text = @ \o text,
                   !.ev = @ \o << Ev("text_start", idx, <<>>), Ev("text_delta", idx, text) >>]

emitText(s, text) ==
    LET s1 == IF s.p.textBlockIndex = Null
              THEN [s EXCEPT !.p.textBlockIndex = Len(s.content),
                             !.content = Append(@, TextBlock(<<>>)),
                             !.ev = Append(@, Ev("text_start", Len(s.content), <<>>))]
              ELSE s
        idx == s1.p.textBlockIndex
    IN  [s1 EXCEPT !.content[idx + 1].text = @ \o text,
                   !.ev = Append(@, Ev("text_delta", idx, text))]

emitThinking(s, thinking) ==
    LET s1 == IF s.p.thinkingBlockIndex = Null
              THEN [s EXCEPT !.p.thinkingBlockIndex = Len(s.content),
                             !.content = Append(@, ThinkingBlock(<<>>)),
                             !.ev = Append(@, Ev("thinking_start", Len(s.content), <<>>))]
              ELSE s
        idx == s1.p.thinkingBlockIndex
    IN  [s1 EXCEPT !.content[idx + 1].thinking = @ \o thinking,
                   !.ev = Append(@, Ev("thinking_delta", idx, thinking))]

\* the variant whose open tag occurs earliest in the buffer (0 when none):
\* BestVariant by the order of the list, whatever the offsets
BestVariantMutListOrder(buf) ==
    LET found == {i \in 1..Len(THINKING_TAG_VARIANTS) :
                     IndexOf(buf, THINKING_TAG_VARIANTS[i].open) # -1}
    IN  IF found = {} THEN 0
        ELSE CHOOSE i \in found : \A j \in found : i <= j

\* the first variant of the list wins a tie, as the loop keeps the first
BestVariant(buf) ==
    LET found == {i \in 1..Len(THINKING_TAG_VARIANTS) :
                     IndexOf(buf, THINKING_TAG_VARIANTS[i].open) # -1}
    IN  IF found = {} THEN 0
        ELSE CHOOSE i \in found : \A j \in found :
                LET pi == IndexOf(buf, THINKING_TAG_VARIANTS[i].open)
                    pj == IndexOf(buf, THINKING_TAG_VARIANTS[j].open)
                IN  pi < pj \/ (pi = pj /\ i <= j)

\* a variant of processBeforeThinking that holds nothing back
processBeforeThinkingMutNoHoldBack(s) ==
    LET buf == s.p.textBuffer
        bv == BestVariant(buf)
    IN  IF bv # 0
        THEN LET v == THINKING_TAG_VARIANTS[bv]
                 bestPos == IndexOf(buf, v.open)
                 s1 == IF bestPos > 0 THEN emitText(s, Slice(buf, 0, bestPos)) ELSE s
             IN  [s1 EXCEPT !.p.textBuffer = SliceFrom(buf, bestPos + Len(v.open)),
                            !.p.activeEndTag = v.close,
                            !.p.inThinking = TRUE]
        ELSE [emitText(s, buf) EXCEPT !.p.textBuffer = <<>>]

processBeforeThinking(s) ==
    LET buf == s.p.textBuffer
        bv == BestVariant(buf)
    IN  IF bv # 0
        THEN LET v == THINKING_TAG_VARIANTS[bv]
                 bestPos == IndexOf(buf, v.open)
                 s1 == IF bestPos > 0 THEN emitText(s, Slice(buf, 0, bestPos)) ELSE s
             IN  [s1 EXCEPT !.p.textBuffer = SliceFrom(buf, bestPos + Len(v.open)),
                            !.p.activeEndTag = v.close,
                            !.p.inThinking = TRUE]
        ELSE LET safeLen == Max(0, Len(buf) - MAX_OPEN_TAG_LEN)
             IN  IF safeLen > 0
                 THEN [emitText(s, Slice(buf, 0, safeLen)) EXCEPT
                          !.p.textBuffer = SliceFrom(buf, safeLen)]
                 ELSE s

processInsideThinking(s) ==
    LET buf == s.p.textBuffer
        endPos == IndexOf(buf, s.p.activeEndTag)
    IN  IF endPos # -1
        THEN LET s1 == IF endPos > 0 THEN emitThinking(s, Slice(buf, 0, endPos)) ELSE s
                 s2 == IF s1.p.thinkingBlockIndex # Null
                       THEN [s1 EXCEPT !.ev = Append(@,
                                Ev("thinking_end", s1.p.thinkingBlockIndex,
                                   s1.content[s1.p.thinkingBlockIndex + 1].thinking))]
                       ELSE s1
                 rest == SliceFrom(buf, endPos + Len(s.p.activeEndTag))
             IN  [s2 EXCEPT !.p.textBuffer =
                                IF StartsWith(rest, <<"\n", "\n">>) THEN SliceFrom(rest, 2) ELSE rest,
                            !.p.inThinking = FALSE,
                            !.p.thinkingExtracted = TRUE]
        ELSE LET safeLen == Max(0, Len(buf) - MAX_CLOSE_TAG_LEN)
             IN  IF safeLen > 0
                 THEN [emitThinking(s, Slice(buf, 0, safeLen)) EXCEPT
                          !.p.textBuffer = SliceFrom(buf, safeLen)]
                 ELSE s

\* a variant of processAfterThinking that goes back to looking for a tag
processAfterThinkingMutReopen(s) == [s EXCEPT !.p.thinkingExtracted = FALSE]

processAfterThinking(s) ==
    [emitText(s, s.p.textBuffer) EXCEPT !.p.textBuffer = <<>>]

\* the while loop of processChunk, one iteration per unfolding; the state
\* after each branch of the body is handed on to the rest of the body
RECURSIVE processLoop(_)

\* after the inThinking branch (s2): its break, then the thinkingExtracted
\* branch, then the no-progress break, then the next iteration
loopAfterInside(s2, wasInThinking, prevLength) ==
    IF wasInThinking /\ Len(s2.p.textBuffer) = 0 THEN s2
    ELSE IF s2.p.thinkingExtracted THEN processAfterThinking(s2)
    ELSE IF Len(s2.p.textBuffer) >= prevLength THEN s2
    ELSE processLoop(s2)

\* after the before-thinking branch (s1): its break, then the inThinking
\* branch
loopAfterBefore(s1, wasBefore, prevLength) ==
    IF wasBefore /\ Len(s1.p.textBuffer) = 0 THEN s1
    ELSE loopAfterInside(IF s1.p.inThinking THEN processInsideThinking(s1) ELSE s1,
                         s1.p.inThinking, prevLength)

processLoop(s) ==
    IF Len(s.p.textBuffer) = 0 THEN s
    ELSE loopAfterBefore(IF ~s.p.inThinking /\ ~s.p.thinkingExtracted
                         THEN processBeforeThinking(s) ELSE s,
                         ~s.p.inThinking /\ ~s.p.thinkingExtracted,
                         Len(s.p.textBuffer))

processChunk(s, chunk) ==
    processLoop([s EXCEPT !.p.textBuffer = @ \o chunk])

\* finalize discarding what is still buffered
finalizeMutDrop(s) == [s EXCEPT !.p.textBuffer = <<>>]

finalize(s) ==
    IF Len(s.p.textBuffer) = 0 THEN s
    ELSE IF s.p.inThinking /\ s.p.thinkingBlockIndex # Null
    THEN LET idx == s.p.thinkingBlockIndex
             full == s.content[idx + 1].thinking \o s.p.textBuffer
         IN  [s EXCEPT !.content[idx + 1].thinking = full,
                       !.ev = @ \o << Ev("thinking_delta", idx, s.p.textBuffer),
                                      Ev("thinking_end", idx, full) >>,
                       !.p.textBuffer = <<>>]
    ELSE [emitText(s, s.p.textBuffer) EXCEPT !.p.textBuffer = <<>>]

(***************************************************************************)
(* Platform JSON: JSON.parse as a recogniser (objects, arrays, strings,    *)
(* integers, true/false/null) and JSON.stringify of the parsed value as    *)
(* the text without its insignificant whitespace.                          *)
(***************************************************************************)
Whitespace == {" ", "\n", "\t", "\r"}
Digits == {"0", "1", "2", "3", "4", "5", "6", "7", "8", "9"}
Escapable == {"\"", "\\", "/", "b", "f", "n", "r", "t"}

\* the character at 0-based position i, "" past the end
Ch(s, i) == IF i >= 0 /\ i < Len(s) THEN s[i + 1] ELSE ""

RECURSIVE SkipWs(_, _)
SkipWs(s, i) == IF Ch(s, i) \in Whitespace THEN SkipWs(s, i + 1) ELSE i

\* position after the string's closing quote, i being just after its opening one
RECURSIVE JStringEnd(_, _)
JStringEnd(s, i) ==
    LET c == Ch(s, i)
    IN  IF c = "" \/ c \in {"\n", "\t", "\r"} THEN -1
        ELSE IF c = "\"" THEN i + 1
        ELSE IF c = "\\" THEN IF Ch(s, i + 1) \in Escapable THEN JStringEnd(s, i + 2) ELSE -1
        ELSE JStringEnd(s, i + 1)

RECURSIVE SkipDigits(_, _)
SkipDigits(s, i) == IF Ch(s, i) \in Digits THEN SkipDigits(s, i + 1) ELSE i

JNumberEnd(s, i) ==
    LET j == IF Ch(s, i) = "-" THEN i + 1 ELSE i
    IN  IF Ch(s, j) = "0" THEN j + 1
        ELSE IF Ch(s, j) \in Digits THEN SkipDigits(s, j)
        ELSE -1

JLiterals == { <<"t","r","u","e">>, <<"f","a","l","s","e">>, <<"n","u","l","l">> }

\* each returns the position after what it parsed, or -1
RECURSIVE JValueEnd(_, _), JMembersEnd(_, _), JElementsEnd(_, _)
JValueEnd(s, i) ==
    LET c == Ch(s, i)
    IN  IF c = "{" THEN
            LET j == SkipWs(s, i + 1)
            IN  IF Ch(s, j) = "}" THEN j + 1 ELSE JMembersEnd(s, j)
        ELSE IF c = "[" THEN
            LET j == SkipWs(s, i + 1)
            IN  IF Ch(s, j) = "]" THEN j + 1 ELSE JElementsEnd(s, j)
        ELSE IF c = "\"" THEN JStringEnd(s, i + 1)
        ELSE IF \E l \in JLiterals : MatchAt(s, l, i)
             THEN i + Len(CHOOSE l \in JLiterals : MatchAt(s, l, i))
        ELSE JNumberEnd(s, i)

\* members of an object from the first key on, through the closing brace
JMembersEnd(s, i) ==
    IF Ch(s, i) # "\"" THEN -1
    ELSE LET k == JStringEnd(s, i + 1)
         IN  IF k = -1 THEN -1
             ELSE LET c == SkipWs(s, k)
                  IN  IF Ch(s, c) # ":" THEN -1
                      ELSE LET v == JValueEnd(s, SkipWs(s, c + 1))
                           IN  IF v = -1 THEN -1
                               ELSE LET n == SkipWs(s, v)
                                    IN  IF Ch(s, n) = "}" THEN n + 1
                                        ELSE IF Ch(s, n) = "," THEN JMembersEnd(s, SkipWs(s, n + 1))
                                        ELSE -1

JElementsEnd(s, i) ==
    LET v == JValueEnd(s, i)
    IN  IF v = -1 THEN -1
        ELSE LET n == SkipWs(s, v)
             IN  IF Ch(s, n) = "]" THEN n + 1
                 ELSE IF Ch(s, n) = "," THEN JElementsEnd(s, SkipWs(s, n + 1))
                 ELSE -1

\* JSON.parse(s) does not throw
JsonParses(s) ==
    LET v == JValueEnd(s, SkipWs(s, 0))
    IN  v # -1 /\ SkipWs(s, v) = Len(s)

\* JSON.stringify(JSON.parse(s)) for a text that parses
RECURSIVE JsonCanonFrom(_, _, _)
JsonCanonFrom(s, i, inString) ==
    LET c == Ch(s, i)
    IN  IF c = "" THEN <<>>
        ELSE IF inString /\ c = "\\" THEN <<c, Ch(s, i + 1)>> \o JsonCanonFrom(s, i + 2, TRUE)
        ELSE IF c = "\"" THEN <<c>> \o JsonCanonFrom(s, i + 1, ~inString)
        ELSE IF ~inString /\ c \in Whitespace THEN JsonCanonFrom(s, i + 1, FALSE)
        ELSE <<c>> \o JsonCanonFrom(s, i + 1, inString)

JsonCanon(s) == JsonCanonFrom(s, 0, FALSE)

\* String.prototype.trim
RECURSIVE TrimEnd(_)
TrimEnd(s) == IF s # <<>> /\ s[Len(s)] \in Whitespace THEN TrimEnd(SubSeq(s, 1, Len(s) - 1)) ELSE s
Trim(s) == TrimEnd(SliceFrom(s, SkipWs(s, 0)))

(***************************************************************************)
(* event-parser.ts: findJsonEnd                                            *)
(***************************************************************************)
RECURSIVE findJsonEndFrom(_, _, _, _, _)
findJsonEndFrom(text, i, braceCount, inString, escapeNext) ==
    IF i >= Len(text) THEN -1
    ELSE LET char == text[i + 1]
         IN  IF escapeNext THEN findJsonEndFrom(text, i + 1, braceCount, inString, FALSE)
             ELSE IF char = "\\" THEN findJsonEndFrom(text, i + 1, braceCount, inString, TRUE)
             ELSE IF char = "\"" THEN findJsonEndFrom(text, i + 1, braceCount, ~inString, FALSE)
             ELSE IF ~inString /\ char = "{"
                  THEN findJsonEndFrom(text, i + 1, braceCount + 1, inString, FALSE)
             ELSE IF ~inString /\ char = "}"
                  THEN IF braceCount - 1 = 0 THEN i
                       ELSE findJsonEndFrom(text, i + 1, braceCount - 1, inString, FALSE)
             ELSE findJsonEndFrom(text, i + 1, braceCount, inString, FALSE)

findJsonEnd(text, start) == findJsonEndFrom(text, start, 0, FALSE, FALSE)

(***************************************************************************)
(* bracket-tool-parser.ts                                                  *)
(***************************************************************************)
WordChars ==
    { "a","b","c","d","e","f","g","h","i","j","k","l","m","n","o","p","q","r",
      "s","t","u","v","w","x","y","z","A","B","C","D","E","F","G","H","I","J",
      "K","L","M","N","O","P","Q","R","S","T","U","V","W","X","Y","Z","_","-" }
      \cup Digits

RECURSIVE SkipWord(_, _)
SkipWord(s, i) == IF Ch(s, i) \in WordChars THEN SkipWord(s, i + 1) ELSE i

\* BRACKET_PATTERN anchored at i: [index, end, name] of the match; index is
\* Null when there is none.
\* \s+ and [\w-]+ are greedy over disjoint character classes, so the match
\* is the one that takes each run whole.
BracketMatchAt(text, i) ==
    LET a == i + 7
        b == SkipWs(text, a)
        c == SkipWord(text, b)
        d == SkipWs(text, c)
        e == d + 4
        f == SkipWs(text, e)
        g == f + 5
    IN  IF /\ MatchAt(text, <<"[","C","a","l","l","e","d">>, i)
           /\ b > a /\ c > b /\ d > c
           /\ MatchAt(text, <<"w","i","t","h">>, d)
           /\ f > e
           /\ MatchAt(text, <<"a","r","g","s",":">>, f)
        THEN [index |-> i, end |-> SkipWs(text, g), name |-> Slice(text, b, c)]
        ELSE [index |-> Null, end |-> Null, name |-> <<>>]

\* BRACKET_PATTERN.exec(text) with the given lastIndex
BracketExec(text, lastIndex) ==
    LET hits == {i \in lastIndex..(Len(text) - 1) : BracketMatchAt(text, i).index # Null}
    IN  IF hits = {} THEN [index |-> Null, end |-> Null, name |-> <<>>]
        ELSE BracketMatchAt(text, CHOOSE i \in hits : \A j \in hits : i <= j)

\* BracketAccept without the test of the text before the closing bracket
BracketAcceptMutAnyBetween(text, match, n) ==
    LET jsonStart == match.end
        braceIdx == IndexOfFrom(text, <<"{">>, jsonStart)
        jsonEndIdx == IF braceIdx >= 0 /\ braceIdx = jsonStart THEN findJsonEnd(text, braceIdx) ELSE -1
        afterJson == IF jsonEndIdx >= 0 THEN IndexOfFrom(text, <<"]">>, jsonEndIdx + 1) ELSE -1
        jsonStr == Slice(text, braceIdx, jsonEndIdx + 1)
    IN  IF /\ afterJson >= 0
           /\ JsonParses(jsonStr)
        THEN [ok |-> TRUE,
              toolCall |-> [toolUseId |-> <<"uuid", n>>, name |-> match.name,
                            arguments |-> JsonCanon(jsonStr)],
              removal |-> [start |-> match.index, end |-> afterJson + 1]]
        ELSE [ok |-> FALSE]

\* one match of the loop: whether it is accepted, and the tool call and
\* removal it then contributes
BracketAccept(text, match, n) ==
    LET jsonStart == match.end
        braceIdx == IndexOfFrom(text, <<"{">>, jsonStart)
        jsonEndIdx == IF braceIdx >= 0 /\ braceIdx = jsonStart THEN findJsonEnd(text, braceIdx) ELSE -1
        afterJson == IF jsonEndIdx >= 0 THEN IndexOfFrom(text, <<"]">>, jsonEndIdx + 1) ELSE -1
        jsonStr == Slice(text, braceIdx, jsonEndIdx + 1)
    IN  IF /\ afterJson >= 0
           /\ Len(Trim(Slice(text, jsonEndIdx + 1, afterJson))) = 0
           /\ JsonParses(jsonStr)
        THEN [ok |-> TRUE,
              toolCall |-> [toolUseId |-> <<"uuid", n>>, name |-> match.name,
                            arguments |-> JsonCanon(jsonStr)],
              removal |-> [start |-> match.index, end |-> afterJson + 1]]
        ELSE [ok |-> FALSE]

\* the while (match !== null) loop
RECURSIVE BracketScan(_, _, _, _)
BracketScan(text, lastIndex, toolCalls, removals) ==
    LET match == BracketExec(text, lastIndex)
    IN  IF match.index = Null THEN [toolCalls |-> toolCalls, removals |-> removals]
        ELSE LET acc == BracketAccept(text, match, Len(toolCalls) + 1)
             IN  IF ~acc.ok
                 THEN BracketScan(text, match.end, toolCalls, removals)
                 ELSE BracketScan(text, match.end, Append(toolCalls, acc.toolCall),
                                  Append(removals, acc.removal))

\* substring clamps its indices to the string
Substring(s, a, b) == Slice(s, Min(Max(a, 0), Len(s)), Min(Max(b, 0), Len(s)))

RECURSIVE BracketRemove(_, _, _)
BracketRemove(cleanedText, removals, i) ==
    IF i < 1 THEN cleanedText
    ELSE BracketRemove(Substring(cleanedText, 0, removals[i].start)
                         \o Substring(cleanedText, removals[i].end, Len(cleanedText)),
                       removals, i - 1)

\* lines 57-64: the result, removals applied from the last to the first
BracketResult(text, r) ==
    [toolCalls |-> r.toolCalls,
     cleanedText |-> BracketRemove(text, r.removals, Len(r.removals))]

parseBracketToolCalls(text) == BracketResult(text, BracketScan(text, 0, <<>>, <<>>))

(***************************************************************************)
(* stream.ts: streamKiro.  The bundle B = [att, output, events] is what    *)
(* the synchronous code between two awaits reads and writes.               *)
(***************************************************************************)
maxRetries == 3
ContextWindow == 200000
MaxEvents == 2      \* upstream events received in one call

\* tokenizer.ts: the encoder is a library; its count is taken as one token
\* per four characters, rounded up
countTokens(text) == IF Len(text) = 0 THEN 0 ELSE (Len(text) + 3) \div 4

\* upstream events, as parseKiroEvents hands them to the loop
Content(d) == [type |-> "content", data |-> d]
ToolUse(id, name, input, stop) ==
    [type |-> "toolUse", toolUseId |-> id, name |-> name, input |-> input, stop |-> stop]
ToolUseInput(input) == [type |-> "toolUseInput", input |-> input]
ToolUseStop(stop) == [type |-> "toolUseStop", stop |-> stop]
ContextUsage(pct) == [type |-> "contextUsage", contextUsagePercentage |-> pct]
Usage(i, o) == [type |-> "usage", inputTokens |-> i, outputTokens |-> o]
FollowupPrompt == [type |-> "followupPrompt"]

JsonA1 == <<"{","\"","a","\"",":","1","}">>
JsonHead == <<"{","\"","a","\"",":">>
JsonTail == <<"1","}">>

ContentPayloads ==
    { <<"h","i">>,
      <<"<","t","h","i","n","k",">","h","m","<","/","t","h","i","n","k",">","\n","\n","o","k">>,
      <<"<","t","h","i","n","k",">","a","b","c","d","e","f","g","h","i","j","k","l","m">>,
      <<"[","C","a","l","l","e","d"," ","f"," ","w","i","t","h"," ","a","r","g","s",":"," ","{","}","]">> }

EventMenu ==
    {Content(d) : d \in ContentPayloads}
    \cup { ToolUse("t1", "f", JsonA1, TRUE), ToolUse("t1", "f", <<>>, FALSE),
           ToolUse("t2", "g", JsonHead, FALSE) }
    \cup { ToolUseInput(JsonTail) }
    \cup { ToolUseStop(TRUE), ToolUseStop(FALSE) }
    \cup { ContextUsage(8), Usage(5, 7), Usage(Null, 7), FollowupPrompt }

\* a chunk carries no complete fragment, one, or two
Chunks ==
    { <<>> } \cup { <<e>> : e \in EventMenu }
    \cup { << Content(<<"h","i">>), ContextUsage(8) >>,
           << ToolUse("t1", "f", JsonA1, TRUE), ContextUsage(8) >> }

Statuses == {200, 400, 401, 403, 413, 429, 503}

ErrTexts ==
    { <<>>, <<"Rate", "limited">>, <<"Input", "is", "too", "long">>,
      <<"x", "Improperly", "formed">>, <<"CONTENT_LENGTH_EXCEEDS_THRESHOLD", "y">> }

NewOutput ==
    [content |-> <<>>,
     usage |-> [input |-> 0, output |-> 0, totalTokens |-> 0],
     stopReason |-> "stop",
     errorMessage |-> <<>>]

NewAttempt ==
    [totalContent |-> <<>>, lastContentData |-> <<>>, usageEvent |-> <<>>,
     receivedContextUsage |-> FALSE, thinkingParser |-> NewParser,
     textBlockIndex |-> Null, toolCalls |-> <<>>, currentToolCall |-> <<>>,
     idleArmed |-> FALSE, gotFirstToken |-> FALSE,
     firstTokenTimedOut |-> FALSE, idleCancelled |-> FALSE]

\* Math.round((pct / 100) * model.contextWindow)
RoundPct(pct, window) == (pct * window + 50) \div 100

OnContextUsage(B, e) ==
    [B EXCEPT !.output.usage.input = RoundPct(e.contextUsagePercentage, ContextWindow),
              !.att.receivedContextUsage = TRUE]

\* the thinking parser works on output.content and the stream by reference:
\* the sink it sees in a bundle, and the bundle after the parser has run
SinkOf(B) ==
    [p |-> B.att.thinkingParser, content |-> B.output.content, ev |-> B.events]

WithSink(B, s) ==
    [B EXCEPT !.att.thinkingParser = s.p,
              !.output.content = s.content,
              !.events = s.ev]

OnContent(B, e) ==
    IF e.data = B.att.lastContentData THEN B
    ELSE LET B1 == [B EXCEPT !.att.lastContentData = e.data,
                             !.att.totalContent = @ \o e.data]
         IN  IF cfg.thinkingEnabled
             THEN WithSink(B1, processChunk(SinkOf(B1), e.data))
             ELSE LET B2 == IF B1.att.textBlockIndex = Null
                            THEN [B1 EXCEPT
                                    !.att.textBlockIndex = Len(B1.output.content),
                                    !.output.content = Append(@, TextBlock(<<>>)),
                                    !.events = Append(@, Ev("text_start", Len(B1.output.content), <<>>))]
                            ELSE B1
                      idx == B2.att.textBlockIndex
                  IN  [B2 EXCEPT !.output.content[idx + 1].text = @ \o e.data,
                                 !.events = Append(@, Ev("text_delta", idx, e.data))]

CallState(id, name, input) == [toolUseId |-> id, name |-> name, input |-> input]

\* OnToolUse opening the new call without archiving the current one
OnToolUseMutDropCurrent(B, e) ==
    LET cur == B.att.currentToolCall
        B1 == IF cur # <<>> /\ cur[1].toolUseId = e.toolUseId
              THEN [B EXCEPT !.att.currentToolCall[1].input = @ \o e.input]
              ELSE [B EXCEPT !.att.currentToolCall = <<CallState(e.toolUseId, e.name, e.input)>>]
    IN  IF e.stop /\ B1.att.currentToolCall # <<>>
        THEN [B1 EXCEPT !.att.toolCalls = Append(@, B1.att.currentToolCall[1]),
                        !.att.currentToolCall = <<>>]
        ELSE B1

OnToolUse(B, e) ==
    LET cur == B.att.currentToolCall
        B1 == IF cur # <<>> /\ cur[1].toolUseId = e.toolUseId
              THEN [B EXCEPT !.att.currentToolCall[1].input = @ \o e.input]
              ELSE [B EXCEPT !.att.toolCalls = IF cur # <<>> THEN Append(@, cur[1]) ELSE @,
                             !.att.currentToolCall = <<CallState(e.toolUseId, e.name, e.input)>>]
    IN  IF e.stop /\ B1.att.currentToolCall # <<>>
        THEN [B1 EXCEPT !.att.toolCalls = Append(@, B1.att.currentToolCall[1]),
                        !.att.currentToolCall = <<>>]
        ELSE B1

\* a variant of OnToolUseInput that keeps only the last fragment
OnToolUseInputMutReplace(B, e) ==
    IF B.att.currentToolCall # <<>>
    THEN [B EXCEPT !.att.currentToolCall[1].input = e.input]
    ELSE B

OnToolUseInput(B, e) ==
    IF B.att.currentToolCall # <<>>
    THEN [B EXCEPT !.att.currentToolCall[1].input = @ \o e.input]
    ELSE B

OnToolUseStop(B, e) ==
    IF B.att.currentToolCall # <<>> /\ e.stop
    THEN [B EXCEPT !.att.toolCalls = Append(@, B.att.currentToolCall[1]),
                   !.att.currentToolCall = <<>>]
    ELSE B

OnUsageMutIgnored(B, e) == B

OnUsage(B, e) == [B EXCEPT !.att.usageEvent = <<e>>]

ProcessEventMutNoDedup(B, e) ==
    CASE e.type = "contextUsage" -> OnContextUsage(B, e)
      [] e.type = "content"      ->
            OnContent([B EXCEPT !.att.lastContentData =
                                    IF e.data = <<>> THEN <<"x">> ELSE <<>>], e)
      [] e.type = "toolUse"      -> OnToolUse(B, e)
      [] e.type = "toolUseInput" -> OnToolUseInput(B, e)
      [] e.type = "toolUseStop"  -> OnToolUseStop(B, e)
      [] e.type = "usage"        -> OnUsage(B, e)
      [] OTHER                   -> B

\* the body of `for (const event of events)`
ProcessEvent(B, e) ==
    CASE e.type = "contextUsage" -> OnContextUsage(B, e)
      [] e.type = "content"      -> OnContent(B, e)
      [] e.type = "toolUse"      -> OnToolUse(B, e)
      [] e.type = "toolUseInput" -> OnToolUseInput(B, e)
      [] e.type = "toolUseStop"  -> OnToolUseStop(B, e)
      [] e.type = "usage"        -> OnUsage(B, e)
      [] OTHER                   -> B

RECURSIVE ProcessEvents(_, _)
ProcessEvents(B, es) ==
    IF es = <<>> THEN B ELSE ProcessEvents(ProcessEvent(B, Head(es)), Tail(es))

(***************************************************************************)
(* Finalization of a drained attempt (stream.ts:366-436).                  *)
(***************************************************************************)
ToolCallBlock(tc) ==
    [type |-> "toolCall", id |-> tc.toolUseId, name |-> tc.name,
     arguments |-> JsonCanon(tc.input)]

\* line 366 and lines 367-370
\* ArchiveCurrent leaving the current call where it is
ArchiveCurrentMutNone(B) ==
    IF cfg.thinkingEnabled
    THEN LET B2 == WithSink(B, finalize(SinkOf(B)))
         IN  [B2 EXCEPT !.att.textBlockIndex = B2.att.thinkingParser.textBlockIndex]
    ELSE B

ArchiveCurrent(B) ==
    LET B1 == IF B.att.currentToolCall # <<>>
              THEN [B EXCEPT !.att.toolCalls = Append(@, B.att.currentToolCall[1])]
              ELSE B
    IN  IF cfg.thinkingEnabled
        THEN LET B2 == WithSink(B1, finalize(SinkOf(B1)))
             IN  [B2 EXCEPT !.att.textBlockIndex = B2.att.thinkingParser.textBlockIndex]
        ELSE B1

BracketAsCalls(calls) ==
    [i \in 1..Len(calls) |->
        CallState(calls[i].toolUseId, calls[i].name, calls[i].arguments)]

\* lines 371-385
AdoptBracketResult(B, bracketResult) ==
    IF Len(bracketResult.toolCalls) > 0
    THEN [B EXCEPT !.output.content[B.att.textBlockIndex + 1].text = bracketResult.cleanedText,
                   !.att.toolCalls = @ \o BracketAsCalls(bracketResult.toolCalls)]
    ELSE B

\* BracketFallback without the test that no tool call was assembled
BracketFallbackMutAlways(B) ==
    IF B.att.textBlockIndex # Null
    THEN AdoptBracketResult(B,
            parseBracketToolCalls(B.output.content[B.att.textBlockIndex + 1].text))
    ELSE B

BracketFallback(B) ==
    IF Len(B.att.toolCalls) = 0 /\ B.att.textBlockIndex # Null
    THEN AdoptBracketResult(B,
            parseBracketToolCalls(B.output.content[B.att.textBlockIndex + 1].text))
    ELSE B

\* lines 386-392
PushTextEnd(B) ==
    IF B.att.textBlockIndex # Null
    THEN [B EXCEPT !.events = Append(@,
            Ev("text_end", B.att.textBlockIndex,
               B.output.content[B.att.textBlockIndex + 1].text))]
    ELSE B

\* lines 393-415, from the i-th archived call on
\* a variant of EmitToolCalls that gives up at the first call it skips
RECURSIVE EmitToolCallsMutStopAtSkip(_, _)
EmitToolCallsMutStopAtSkip(B, i) ==
    IF i > Len(B.att.toolCalls) THEN B
    ELSE LET tc == B.att.toolCalls[i]
         IN  IF Len(Trim(tc.input)) = 0 \/ ~JsonParses(tc.input)
             THEN B
             ELSE LET idx == Len(B.output.content)
                      toolCall == ToolCallBlock(tc)
                  IN  EmitToolCallsMutStopAtSkip(
                        [B EXCEPT !.output.content = Append(@, toolCall),
                                  !.events = @ \o << Ev("toolcall_start", idx, <<>>),
                                                     Ev("toolcall_delta", idx, tc.input),
                                                     Ev("toolcall_end", idx, toolCall) >>],
                        i + 1)

RECURSIVE EmitToolCalls(_, _)
EmitToolCalls(B, i) ==
    IF i > Len(B.att.toolCalls) THEN B
    ELSE LET tc == B.att.toolCalls[i]
         IN  IF Len(Trim(tc.input)) = 0 \/ ~JsonParses(tc.input)
             THEN EmitToolCalls(B, i + 1)
             ELSE LET idx == Len(B.output.content)
                      toolCall == ToolCallBlock(tc)
                  IN  EmitToolCalls(
                        [B EXCEPT !.output.content = Append(@, toolCall),
                                  !.events = @ \o << Ev("toolcall_start", idx, <<>>),
                                                     Ev("toolcall_delta", idx, tc.input),
                                                     Ev("toolcall_end", idx, toolCall) >>],
                        i + 1)

\* lines 416-423
TotalTokens(usage) == usage.input + usage.output

ComputeUsage(B) ==
    LET B1 == IF B.att.usageEvent # <<>>
              THEN LET u == B.att.usageEvent[1]
                   IN  [B EXCEPT
                          !.output.usage.input = IF u.inputTokens # Null THEN u.inputTokens ELSE @,
                          !.output.usage.output = IF u.outputTokens # Null THEN u.outputTokens ELSE @]
              ELSE [B EXCEPT !.output.usage.output = countTokens(B.att.totalContent)]
    IN  [B1 EXCEPT !.output.usage.totalTokens = TotalTokens(B1.output.usage)]

\* lines 430-434
StopReason(receivedContextUsage, nToolCalls) ==
    IF ~receivedContextUsage /\ nToolCalls = 0 THEN "length"
    ELSE IF nToolCalls > 0 THEN "toolUse" ELSE "stop"

Terminal(type, message) ==
    [type |-> type, contentIndex |-> Null, data |-> message.stopReason, message |-> message]

\* lines 366-436
SetStopReason(B) ==
    [B EXCEPT !.output.stopReason =
                  StopReason(B.att.receivedContextUsage, Len(B.att.toolCalls))]

\* line 435
PushDone(B) == [B EXCEPT !.events = Append(@, Terminal("done", B.output))]

\* Finalize closing the text slot after the tool calls
FinalizeMutTextEndLast(B) ==
    PushDone(SetStopReason(ComputeUsage(
        PushTextEnd(EmitToolCalls(BracketFallback(ArchiveCurrent(B)), 1)))))

Finalize(B) ==
    PushDone(SetStopReason(ComputeUsage(
        EmitToolCalls(PushTextEnd(BracketFallback(ArchiveCurrent(B))), 1))))

\* lines 439-444: the catch block
StopReasonOfErrorMutNever(isAborted) == "error"

StopReasonOfError(isAborted) == IF isAborted THEN "aborted" ELSE "error"

Catch(B, message) ==
    LET out == [B.output EXCEPT !.stopReason = StopReasonOfError(aborted),
                                !.errorMessage = message]
    IN  [B EXCEPT !.output = out,
                  !.events = Append(@, Terminal("error", out))]

(***************************************************************************)
(* The producer task of streamKiro, one action per resolution of an await. *)
(***************************************************************************)
CurB == [att |-> att, output |-> output, events |-> events]

SetB(B) ==
    /\ att' = B.att
    /\ output' = B.output
    /\ events' = B.events

NoCall == [op |-> "none"]

\* the history variable statusRun: NoRun before the first attempt settles,
\* <<status, sizePhrase>> while every attempt has failed with that status
\* (and, for 400, that kind of body), MixedRun otherwise
NoRun == <<>>
MixedRun == <<0>>
HasSizePhrase(errText) == \E p \in TOO_BIG_PATTERNS : Includes(errText, p)
RunAfter(run, class) == IF run = NoRun \/ run = class THEN class ELSE MixedRun

Init ==
    /\ cfg \in [apiKey : BOOLEAN, thinkingEnabled : BOOLEAN, preAborted : BOOLEAN]
    /\ aborted = cfg.preAborted
    /\ pc = "start"
    /\ retryCount = 0
    /\ reductionFactor = 1000
    /\ fetchCount = 0
    /\ netCount = 0
    /\ inFlight = FALSE
    /\ resp = 0
    /\ lastDelay = 0
    /\ output = NewOutput
    /\ events = <<>>
    /\ ended = FALSE
    /\ att = NewAttempt
    /\ received = 0
    /\ statusRun = NoRun
    /\ call = NoCall

\* `while (retryCount <= maxRetries)` with its body up to `await fetch(...)`:
\* fetch is handed options.signal, and sends nothing when it is aborted
LoopCond(rc) == rc <= maxRetries

FetchSendsMutIgnoreSignal(isAborted) == TRUE

FetchSends(isAborted) == ~isAborted

LoopTop(rc) ==
    IF LoopCond(rc)
    THEN /\ pc' = "fetch"
         /\ fetchCount' = fetchCount + 1
         /\ netCount' = netCount + (IF FetchSends(aborted) THEN 1 ELSE 0)
         /\ inFlight' = FetchSends(aborted)
         /\ ended' = ended
    ELSE /\ pc' = "exited"
         /\ inFlight' = FALSE
         /\ UNCHANGED <<fetchCount, netCount, ended>>

\* an exception reaching the catch block
Throw(B, message) ==
    /\ SetB(Catch(B, message))
    /\ pc' = "ended"
    /\ ended' = TRUE
    /\ inFlight' = FALSE

\* lines 80-102
Begin ==
    /\ pc = "start"
    /\ IF ~cfg.apiKey
       THEN /\ Throw(CurB, <<"Kiro credentials not set">>)
            /\ UNCHANGED <<fetchCount, netCount>>
       ELSE /\ LoopTop(retryCount)
            /\ UNCHANGED <<att, output, events>>
    /\ UNCHANGED <<cfg, aborted, retryCount, reductionFactor, resp, lastDelay, received,
                   statusRun, call>>

\* fetch rejects: the signal is aborted, or the network failed
FetchRejects ==
    /\ pc = "fetch"
    /\ Throw(CurB, IF aborted THEN <<"AbortError">> ELSE <<"fetch failed">>)
    /\ statusRun' = MixedRun
    /\ UNCHANGED <<cfg, aborted, retryCount, reductionFactor, fetchCount, netCount,
                   resp, lastDelay, received, call>>

\* lines 238, 252-254: fetch resolves with a response
FetchResolves(status, hasBody) ==
    /\ pc = "fetch"
    /\ inFlight
    /\ ~aborted
    /\ IF status # 200
       THEN /\ pc' = "errText"
            /\ resp' = status
            /\ UNCHANGED <<att, output, events, ended, inFlight>>
       ELSE LET B == [CurB EXCEPT !.events = Append(@, Ev("start", Null, <<>>))]
            IN  IF ~hasBody
                THEN Throw(B, <<"No response body">>) /\ resp' = resp
                ELSE /\ SetB([B EXCEPT !.att = NewAttempt])
                     /\ pc' = "firstRead"
                     /\ UNCHANGED <<resp, ended, inFlight>>
    /\ statusRun' = IF status = 200 THEN MixedRun ELSE statusRun
    /\ UNCHANGED <<cfg, aborted, retryCount, reductionFactor, fetchCount, netCount,
                   lastDelay, received, call>>

\* lines 239-251: response.text() settles (a rejection is caught as "")
ReduceMutNone(rf) == rf

Reduce(rf) == (rf * 7) \div 10

ErrorBody(errText) ==
    /\ pc = "errText"
    /\ aborted => errText = <<>>
    /\ LET decision == decideRetry(resp, errText, retryCount, maxRetries)
       IN  IF decision.shouldRetry
           THEN /\ retryCount' = retryCount + 1
                /\ IF decision.strategy = "reduce"
                   THEN /\ reductionFactor' = Reduce(reductionFactor)
                        /\ LoopTop(retryCount')
                        /\ UNCHANGED lastDelay
                   ELSE IF decision.delayMs > 0
                   THEN /\ pc' = "sleep"
                        /\ lastDelay' = decision.delayMs
                        /\ inFlight' = FALSE
                        /\ UNCHANGED <<reductionFactor, fetchCount, netCount, ended>>
                   ELSE /\ LoopTop(retryCount')
                        /\ UNCHANGED <<reductionFactor, lastDelay>>
                /\ UNCHANGED <<att, output, events>>
           ELSE /\ Throw(CurB, <<"Kiro API error", "status", resp, errText>>)
                /\ UNCHANGED <<retryCount, reductionFactor, fetchCount, netCount, lastDelay>>
    /\ statusRun' = RunAfter(statusRun, <<resp, resp = 400 /\ HasSizePhrase(errText)>>)
    /\ UNCHANGED <<cfg, aborted, resp, received, call>>

\* the setTimeout of a backoff (lines 246, 361) fires; `continue`
BackoffOver ==
    /\ pc = "sleep"
    /\ LoopTop(retryCount)
    /\ lastDelay' = 0
    /\ UNCHANGED <<cfg, aborted, retryCount, reductionFactor, resp,
                   output, events, att, received, statusRun, call>>

\* lines 356-365
TimeoutMayRetryMutOffByOne(rc) == rc <= maxRetries

TimeoutMayRetry(rc) == rc < maxRetries

TimeoutDelayMutNoShift(rc) == 1000 * Pow2(rc)

TimeoutDelay(rc) == 1000 * Pow2(rc - 1)

\* TimedOut without the cancellation of the reader
TimedOutMutNoCancel(B, kind) ==
    IF TimeoutMayRetry(retryCount)
    THEN /\ retryCount' = retryCount + 1
         /\ lastDelay' = 1000 * Pow2(retryCount' - 1)
         /\ pc' = "sleep"
         /\ inFlight' = inFlight
         /\ SetB(B)
         /\ UNCHANGED ended
    ELSE /\ Throw(B, <<"Kiro API error", kind, "timeout after max retries">>)
         /\ UNCHANGED <<retryCount, lastDelay>>

TimedOut(B, kind) ==
    IF TimeoutMayRetry(retryCount)
    THEN /\ retryCount' = retryCount + 1
         /\ lastDelay' = TimeoutDelay(retryCount')
         /\ pc' = "sleep"
         /\ inFlight' = FALSE
         /\ SetB(B)
         /\ UNCHANGED ended
    ELSE /\ Throw(B, <<"Kiro API error", kind, "timeout after max retries">>)
         /\ UNCHANGED <<retryCount, lastDelay>>

\* lines 284-296: the first-token deadline wins the race
FirstTokenTimeout ==
    /\ pc = "firstRead"
    /\ TimedOut([CurB EXCEPT !.att.firstTokenTimedOut = TRUE], "first token")
    /\ UNCHANGED <<cfg, aborted, reductionFactor, fetchCount, netCount, resp, received,
                   statusRun, call>>

\* lines 297-353: a read resolves with a chunk
ReadChunk(chunk) ==
    /\ pc \in {"firstRead", "read"}
    /\ ~aborted
    /\ ~att.idleCancelled
    /\ received + Len(chunk) <= MaxEvents
    /\ received' = received + Len(chunk)
    /\ SetB(ProcessEvents([CurB EXCEPT !.att.gotFirstToken = TRUE,
                                       !.att.idleArmed = TRUE], chunk))
    /\ pc' = "read"
    /\ UNCHANGED <<cfg, aborted, retryCount, reductionFactor, fetchCount, netCount,
                   inFlight, resp, lastDelay, ended, statusRun, call>>

\* lines 267-275: the idle timer fires and cancels the reader
IdleTimerFires ==
    /\ att.idleArmed
    /\ att' = [att EXCEPT !.idleArmed = FALSE, !.idleCancelled = TRUE]
    /\ inFlight' = FALSE
    /\ UNCHANGED <<cfg, aborted, pc, retryCount, reductionFactor, fetchCount, netCount,
                   resp, lastDelay, output, events, ended, received, statusRun, call>>

\* lines 436-437: stream.end(); break
AfterDoneMutNoBreak == "sleep"

AfterDone == "ended"

\* lines 303, 355-436: a read resolves with done, by the source's end or by
\* the reader's cancellation
ReadDone ==
    /\ pc \in {"firstRead", "read"}
    /\ ~aborted \/ att.idleCancelled
    /\ LET B == [CurB EXCEPT !.att.gotFirstToken = TRUE, !.att.idleArmed = FALSE]
       IN  IF B.att.firstTokenTimedOut \/ B.att.idleCancelled
           THEN TimedOut(B, "idle")
           ELSE /\ SetB(Finalize(B))
                /\ pc' = AfterDone
                /\ ended' = TRUE
                /\ inFlight' = FALSE
                /\ UNCHANGED <<retryCount, lastDelay>>
    /\ UNCHANGED <<cfg, aborted, reductionFactor, fetchCount, netCount, resp, received,
                   statusRun, call>>

\* a read rejects: the signal aborted the body, or the connection failed
ReadRejects ==
    /\ pc \in {"firstRead", "read"}
    /\ ~att.idleCancelled
    /\ Throw(CurB, IF aborted THEN <<"AbortError">> ELSE <<"terminated">>)
    /\ UNCHANGED <<cfg, aborted, retryCount, reductionFactor, fetchCount, netCount,
                   resp, lastDelay, received, statusRun, call>>

\* options.signal fires while the producer is suspended at an await (the
\* code from the call of streamKiro to the first fetch runs without one)
Abort ==
    /\ ~aborted
    /\ pc \notin {"start", "ended", "exited"}
    /\ aborted' = TRUE
    /\ UNCHANGED <<cfg, pc, retryCount, reductionFactor, fetchCount, netCount, inFlight,
                   resp, lastDelay, output, events, ended, att, received, statusRun, call>>

Produce ==
    \/ Begin
    \/ FetchRejects
    \/ \E status \in Statuses, hasBody \in BOOLEAN : FetchResolves(status, hasBody)
    \/ \E errText \in ErrTexts : ErrorBody(errText)
    \/ BackoffOver
    \/ FirstTokenTimeout
    \/ \E chunk \in Chunks : ReadChunk(chunk)
    \/ IdleTimerFires
    \/ ReadDone
    \/ ReadRejects

Next == Produce \/ Abort

Spec == Init /\ [][Next]_vars

\* every fetch, read and timer eventually settles
FairSpec == Spec /\ WF_vars(Produce)

(***************************************************************************)
(* decideRetry applied to inputs drawn from bounded sets.                  *)
(***************************************************************************)
MaxAttempt == 7
MaxMaxRetries == 8

RetryStatuses == {200, 400, 401, 403, 404, 413, 422, 429, 499, 500, 503, 599, 600}

RetryCall(status, errorText, attempt, maxR) ==
    [op |-> "decideRetry", status |-> status, errorText |-> errorText,
     attempt |-> attempt, maxRetries |-> maxR,
     result |-> decideRetry(status, errorText, attempt, maxR)]

RetryCalls ==
    { RetryCall(st, tx, a, m) :
        st \in RetryStatuses, tx \in ErrTexts, a \in 0..MaxAttempt, m \in 0..MaxMaxRetries }

StreamAtRest ==
    /\ cfg = [apiKey |-> FALSE, thinkingEnabled |-> FALSE, preAborted |-> FALSE]
    /\ aborted = FALSE
    /\ pc = "start"
    /\ retryCount = 0
    /\ reductionFactor = 1000
    /\ fetchCount = 0
    /\ netCount = 0
    /\ inFlight = FALSE
    /\ resp = 0
    /\ lastDelay = 0
    /\ output = NewOutput
    /\ events = <<>>
    /\ ended = FALSE
    /\ att = NewAttempt
    /\ received = 0
    /\ statusRun = NoRun

InitRetry == StreamAtRest /\ call = NoCall

CallDecideRetry ==
    /\ call = NoCall
    /\ call' \in RetryCalls
    /\ UNCHANGED streamVars

SpecRetry == InitRetry /\ [][CallDecideRetry]_vars

(***************************************************************************)
(* Properties.                                                             *)
(***************************************************************************)
IsTerminal(e) == e.type \in {"done", "error"}
TerminalAt == {i \in 1..Len(events) : IsTerminal(events[i])}
LastEvent == events[Len(events)]

\* C1: the event sequence holds at most one terminal event (done or error),
\* and no event of any kind follows it.
C1_OneTerminalLast ==
    /\ Cardinality(TerminalAt) <= 1
    /\ \A i \in TerminalAt : i = Len(events)

C1_Witness ==
    /\ Len(events) >= 4
    /\ LastEvent.type = "done"
    /\ retryCount >= 1

\* C2: when every fetch, read and timer settles, the call emits a terminal
\* event, and the attempt loop is never left through its condition.
C2_Terminates == [](pc # "exited") /\ <>(TerminalAt # {})

C2_Witness ==
    /\ retryCount = maxRetries
    /\ TerminalAt # {}
    /\ output.errorMessage = <<"Kiro API error", "idle", "timeout after max retries">>

SlotKinds == {"text", "thinking", "toolcall"}
Slots == {events[i].contentIndex : i \in 1..Len(events)} \ {Null}
KindAt(kind, part, idx) ==
    {i \in 1..Len(events) :
        events[i].contentIndex = idx /\ events[i].type = kind \o "_" \o part}

\* C3: for every content slot, one start at most and one end at most; the
\* start precedes every delta of the slot and every delta precedes the end.
C3_SlotOrder ==
    \A kind \in SlotKinds : \A idx \in Slots :
        LET starts == KindAt(kind, "start", idx)
            deltas == KindAt(kind, "delta", idx)
            ends == KindAt(kind, "end", idx)
        IN  /\ Cardinality(starts) <= 1
            /\ Cardinality(ends) <= 1
            /\ \A d \in deltas \cup ends : \E a \in starts : a < d
            /\ \A d \in deltas : \A z \in ends : d < z

C3_Witness ==
    /\ ended
    /\ LastEvent.type = "done"
    /\ \E idx \in 0..1 :
          /\ KindAt("thinking", "start", idx) # {}
          /\ KindAt("thinking", "delta", idx) # {}
          /\ KindAt("thinking", "end", idx) # {}
    /\ \E idx \in 0..1 :
          /\ Cardinality(KindAt("text", "delta", idx)) >= 2
          /\ KindAt("text", "end", idx) # {}

Retryable(run) ==
    /\ Len(run) = 2
    /\ \/ run[1] \in {413, 429, 403}
       \/ run[1] >= 500 /\ run[1] < 600
       \/ run[1] = 400 /\ run[2]

\* C4: while every attempt returns the same retryable status and the call
\* is not cancelled, the call does not end before its 4th fetch, issues no
\* 5th, and ends with an error event of stopReason `error`, never done.
C4_RetryBudget ==
    (Retryable(statusRun) /\ ~aborted) =>
        /\ fetchCount <= maxRetries + 1
        /\ pc # "exited"
        /\ ended =>
              /\ fetchCount = maxRetries + 1
              /\ LastEvent.type = "error"
              /\ LastEvent.message.stopReason = "error"
              /\ \A i \in 1..Len(events) : events[i].type # "done"

C4_Witness ==
    /\ \E st \in {413, 429, 403, 503} : statusRun = <<st, FALSE>>
    /\ ~aborted
    /\ ended
    /\ fetchCount = 4

\* C5: status retries and both timeouts draw on one counter: retryCount
\* never exceeds 3, at most 4 fetches are issued, and a failure of the
\* attempt made with the budget spent is the terminal error.
C5_SharedBudget ==
    /\ [](retryCount <= maxRetries /\ fetchCount <= maxRetries + 1)
    /\ [][ /\ retryCount = maxRetries
           /\ \/ pc = "errText" /\ pc' # "errText"
              \/ pc = "firstRead" /\ att'.firstTokenTimedOut
              \/ pc = "read" /\ pc' # "read" /\ att.idleCancelled
           => /\ ended'
              /\ events'[Len(events')].type = "error"
              /\ fetchCount' = fetchCount
              /\ \/ /\ pc = "errText"
                    /\ Len(output'.errorMessage) = 4
                    /\ output'.errorMessage[3] = resp
                 \/ /\ pc = "firstRead"
                    /\ output'.errorMessage =
                         <<"Kiro API error", "first token", "timeout after max retries">>
                 \/ /\ pc = "read"
                    /\ output'.errorMessage =
                         <<"Kiro API error", "idle", "timeout after max retries">> ]_vars

C5_Witness ==
    /\ ended
    /\ retryCount = maxRetries
    /\ reductionFactor < 1000
    /\ output.errorMessage = <<"Kiro API error", "first token", "timeout after max retries">>
    /\ \E i \in 1..Len(events) : events[i].type = "text_delta"

ExpectedStrategy(status, errorText, attempt, maxR) ==
    IF attempt >= maxR THEN "none"
    ELSE IF status = 413 \/ (status = 400 /\ HasSizePhrase(errorText)) THEN "reduce"
    ELSE IF status = 429 \/ (500 <= status /\ status < 600) \/ status = 403 THEN "backoff"
    ELSE "none"

ExpectedDelay(status, strategy, attempt) ==
    IF strategy # "backoff" THEN 0
    ELSE LET base == IF status = 403 THEN 500 ELSE 1000
             raw == base * Pow2(attempt)
         IN  IF raw < 30000 THEN raw ELSE 30000

\* C6: decideRetry follows the ordered table on every input, and
\* shouldRetry is true exactly when the strategy is not none.
C6_DecideRetryTable ==
    call.op = "decideRetry" =>
        LET st == ExpectedStrategy(call.status, call.errorText, call.attempt, call.maxRetries)
        IN  /\ call.result.strategy = st
            /\ call.result.delayMs = ExpectedDelay(call.status, st, call.attempt)
            /\ call.result.shouldRetry = (call.result.strategy # "none")

C6_Witness ==
    /\ call.op = "decideRetry"
    /\ call.status = 403
    /\ call.attempt = 6
    /\ call.result.strategy = "backoff"
    /\ call.result.delayMs = 30000

HasToolCallBlock(message) ==
    \E i \in 1..Len(message.content) : message.content[i].type = "toolCall"

\* C7: at done the stop reason is toolUse exactly when the message holds a
\* ToolCall block; otherwise length when the attempt saw no ContextUsage
\* event, otherwise stop.
C7_StopReason ==
    (Len(events) > 0 /\ LastEvent.type = "done") =>
        LastEvent.message.stopReason =
            IF HasToolCallBlock(LastEvent.message) THEN "toolUse"
            ELSE IF ~att.receivedContextUsage THEN "length"
            ELSE "stop"

C9_NoFetchWhenPreAborted ==
    cfg.preAborted =>
        /\ fetchCount = 0
        /\ ended => (LastEvent.type = "error" /\ LastEvent.message.stopReason = "aborted")

\* C9 amended: with the signal fired before the call, fetch is invoked at
\* most once, with the aborted signal, so that no request is sent; nothing
\* is retried, no start event is pushed, and the call ends with an error
\* event of stopReason `aborted`.
C9_NoRequestWhenPreAborted ==
    cfg.preAborted =>
        /\ netCount = 0
        /\ fetchCount <= 1
        /\ retryCount = 0
        /\ ~cfg.apiKey => fetchCount = 0
        /\ pc \in {"start", "fetch", "ended"}
        /\ ended => (events = <<LastEvent>> /\ LastEvent.type = "error"
                     /\ LastEvent.message.stopReason = "aborted")

C9_Witness ==
    /\ cfg.preAborted
    /\ cfg.apiKey
    /\ ended
    /\ fetchCount = 1
    /\ LastEvent.message.stopReason = "aborted"

\* C10: the message of every terminal event has totalTokens = input + output.
C10_TotalTokens ==
    \A i \in TerminalAt :
        events[i].message.usage.totalTokens =
            events[i].message.usage.input + events[i].message.usage.output


(***************************************************************************)
(* One drained attempt on its own: the events of a 200 response are fed to *)
(* the event loop and the attempt is finalized (stream.ts:252-436).  The   *)
(* variable call records the events received and the bundle at done.       *)
(***************************************************************************)
MaxAttemptEvents == 4

SeqsUpTo(S, n) == UNION {[1..k -> S] : k \in 0..n}

\* events that bear on usage accounting and on content de-duplication
UsageMenu ==
    { Content(<<"a","b","c","d","e">>), Content(<<"x">>), Content(<<>>),
      ContextUsage(8), ContextUsage(50), Usage(5, 7), Usage(Null, 7) }

\* events that bear on tool call assembly and filtering
ToolMenu ==
    { ToolUse("t1", "f", <<>>, FALSE), ToolUse("t1", "f", JsonHead, FALSE),
      ToolUse("t2", "g", JsonA1, TRUE), ToolUse("t3", "h", <<"x">>, TRUE),
      ToolUseInput(JsonHead), ToolUseInput(JsonTail), ToolUseStop(TRUE) }

AttemptInputs == SeqsUpTo(UsageMenu, MaxAttemptEvents) \cup SeqsUpTo(ToolMenu, MaxAttemptEvents)

\* lines 252-278: the start event is pushed and the attempt's locals are fresh
AttemptStart ==
    [att |-> NewAttempt, output |-> NewOutput, events |-> <<Ev("start", Null, <<>>)>>]

AttemptCall(es) ==
    [op |-> "attempt", events |-> es,
     result |-> Finalize(ProcessEvents(AttemptStart, es))]

InitAttempt ==
    /\ cfg \in [apiKey : {TRUE}, thinkingEnabled : BOOLEAN, preAborted : {FALSE}]
    /\ aborted = FALSE
    /\ pc = "start"
    /\ retryCount = 0
    /\ reductionFactor = 1000
    /\ fetchCount = 0
    /\ netCount = 0
    /\ inFlight = FALSE
    /\ resp = 0
    /\ lastDelay = 0
    /\ output = NewOutput
    /\ events = <<>>
    /\ ended = FALSE
    /\ att = NewAttempt
    /\ received = 0
    /\ statusRun = NoRun
    /\ call = NoCall

RunAttempt ==
    /\ call = NoCall
    /\ \E es \in AttemptInputs : call' = AttemptCall(es)
    /\ UNCHANGED streamVars

SpecAttempt == InitAttempt /\ [][RunAttempt]_vars

\* the events of one type among those received, in arrival order
OfType(es, type) == SelectSeq(es, LAMBDA e : e.type = type)
Last(sq) == sq[Len(sq)]

\* the input count the ContextUsage events of the attempt leave behind
DerivedInput(es) ==
    LET cu == OfType(es, "contextUsage")
    IN  IF cu = <<>> THEN 0 ELSE RoundPct(Last(cu).contextUsagePercentage, ContextWindow)

\* the Content payloads that pass the de-duplication test of line 317: a
\* payload is dropped when it equals the payload of the latest Content event
\* before it, the empty string standing for "none yet"
RECURSIVE KeptPayloads(_, _)
KeptPayloads(cs, last) ==
    IF cs = <<>> THEN <<>>
    ELSE IF Head(cs).data = last THEN KeptPayloads(Tail(cs), last)
    ELSE <<Head(cs).data>> \o KeptPayloads(Tail(cs), Head(cs).data)

RECURSIVE Flatten(_)
Flatten(ss) == IF ss = <<>> THEN <<>> ELSE Head(ss) \o Flatten(Tail(ss))

\* C11 as stated: with a Usage event observed the message's input and output
\* are that event's counts; with none, input is the value derived from the
\* last ContextUsage event and output is the token count of the
\* de-duplicated Content payloads.
C11_UsageAtFinalize ==
    call.op = "attempt" =>
        LET us == OfType(call.events, "usage")
            usage == call.result.output.usage
        IN  IF us # <<>>
            THEN /\ usage.input = Last(us).inputTokens
                 /\ usage.output = Last(us).outputTokens
            ELSE /\ usage.input = DerivedInput(call.events)
                 /\ usage.output =
                      countTokens(Flatten(KeptPayloads(OfType(call.events, "content"), <<>>)))

\* C11 amended: each count the last Usage event carries is the message's
\* count; a count it lacks leaves input at the value derived from the last
\* ContextUsage event and output at 0.  With no Usage event, input is the
\* derived value and output is the token count of the de-duplicated payloads.
C11_UsageCountsCarried ==
    call.op = "attempt" =>
        LET us == OfType(call.events, "usage")
            usage == call.result.output.usage
        IN  IF us # <<>>
            THEN /\ usage.input = IF Last(us).inputTokens # Null
                                  THEN Last(us).inputTokens
                                  ELSE DerivedInput(call.events)
                 /\ usage.output = IF Last(us).outputTokens # Null
                                   THEN Last(us).outputTokens ELSE 0
            ELSE /\ usage.input = DerivedInput(call.events)
                 /\ usage.output =
                      countTokens(Flatten(KeptPayloads(OfType(call.events, "content"), <<>>)))

C11_Witness ==
    /\ call.op = "attempt"
    /\ call.events = << Content(<<"a","b","c","d","e">>), ContextUsage(8), ContextUsage(50),
                        Usage(Null, 7) >>
    /\ call.result.output.usage.input = 100000
    /\ call.result.output.usage.output = 7

\* the payloads of the text deltas pushed, in order
TextDeltas(evs) == [i \in 1..Len(OfType(evs, "text_delta")) |-> OfType(evs, "text_delta")[i].data]

\* the Content payloads of a stream with every fragment dropped whose
\* immediate predecessor in the stream is a Content fragment of equal payload
AdjacentCollapsed(es) ==
    LET keep == {i \in 1..Len(es) :
                    /\ es[i].type = "content"
                    /\ ~(i > 1 /\ es[i - 1].type = "content" /\ es[i - 1].data = es[i].data)}
        RECURSIVE From(_)
        From(i) == IF i > Len(es) THEN <<>>
                   ELSE IF i \in keep THEN <<es[i].data>> \o From(i + 1)
                   ELSE From(i + 1)
    IN  From(1)

\* C12 as stated: a Content fragment is dropped exactly when the fragment
\* immediately before it in the stream is a Content fragment with the same
\* payload; with thinking disabled the text deltas are the Content sequence
\* with adjacent duplicates collapsed.
C12_AdjacentDedup ==
    (call.op = "attempt" /\ ~cfg.thinkingEnabled) =>
        TextDeltas(call.result.events) = AdjacentCollapsed(call.events)

\* C12 amended: a Content fragment is dropped exactly when its payload equals
\* the payload of the latest Content fragment before it in the attempt,
\* whatever other events lie between them, or is empty with no Content
\* fragment before it; with thinking disabled the text deltas are the
\* remaining payloads in order, and totalContent is their concatenation.
C12_DedupAgainstLastContent ==
    call.op = "attempt" =>
        LET kept == KeptPayloads(OfType(call.events, "content"), <<>>)
        IN  /\ call.result.att.totalContent = Flatten(kept)
            /\ ~cfg.thinkingEnabled => TextDeltas(call.result.events) = kept

C12_Witness ==
    /\ call.op = "attempt"
    /\ ~cfg.thinkingEnabled
    /\ call.events = << Content(<<"x">>), ContextUsage(8), Content(<<"x">>),
                        Content(<<"a","b","c","d","e">>) >>
    /\ TextDeltas(call.result.events) = << <<"x">>, <<"a","b","c","d","e">> >>

(***************************************************************************)
(* event-parser.ts: JSON.parse as a value, parseKiroEvent, parseKiroEvents *)
(* A parsed value is [t, raw, v]: its type, its source text, and its       *)
(* content (decoded characters, integer, boolean, members or elements).    *)
(***************************************************************************)
Undefined == [t |-> "undefined", raw |-> <<>>, v |-> <<>>]

\* the characters of a string literal's body, escapes decoded
RECURSIVE Unescape(_)
Unescape(s) ==
    IF s = <<>> THEN <<>>
    ELSE IF Head(s) = "\\"
    THEN << CASE s[2] = "n" -> "\n" [] s[2] = "t" -> "\t" [] s[2] = "r" -> "\r"
              [] s[2] = "f" -> "\f" [] s[2] = "b" -> "\\b" [] OTHER -> s[2] >>
         \o Unescape(SubSeq(s, 3, Len(s)))
    ELSE <<Head(s)>> \o Unescape(Tail(s))

\* the value of an integer literal (the numbers the model carries are integers)
IntOf(text) ==
    LET RECURSIVE NatOf(_)
        NatOf(ds) ==
            IF ds = <<>> THEN 0
            ELSE 10 * NatOf(SubSeq(ds, 1, Len(ds) - 1))
                 + (CHOOSE n \in 0..9 : ToString(n) = ds[Len(ds)])
    IN  IF Head(text) = "-" THEN 0 - NatOf(Tail(text)) ELSE NatOf(text)

\* the value of the JSON text that starts at position i of s (a text that
\* JSON.parse accepts); members of an object are kept in source order
RECURSIVE JValueAt(_, _)
JValueAt(s, i) ==
    LET raw == Slice(s, i, JValueEnd(s, i))
        c == Ch(s, i)
        RECURSIVE MembersAt(_), MembersNext(_, _), ElementsAt(_)
        MemberOf(k, vpos) ==
            << [key |-> Unescape(Slice(s, k + 1, JStringEnd(s, k + 1) - 1)),
                value |-> JValueAt(s, vpos)] >>
        AfterValue(n) == IF Ch(s, n) = "," THEN SkipWs(s, n + 1) ELSE -1
        MembersAt(k) ==
            IF k = -1 \/ Ch(s, k) # "\"" THEN <<>>
            ELSE MembersNext(k, SkipWs(s, SkipWs(s, JStringEnd(s, k + 1)) + 1))
        MembersNext(k, vpos) ==
            MemberOf(k, vpos) \o MembersAt(AfterValue(SkipWs(s, JValueEnd(s, vpos))))
        ElementsAt(vpos) ==
            IF vpos = -1 \/ Ch(s, vpos) = "]" THEN <<>>
            ELSE <<JValueAt(s, vpos)>> \o ElementsAt(AfterValue(SkipWs(s, JValueEnd(s, vpos))))
    IN  CASE c = "\"" -> [t |-> "string", raw |-> raw, v |-> Unescape(Slice(raw, 1, Len(raw) - 1))]
          [] c = "{"  -> [t |-> "object", raw |-> raw, v |-> MembersAt(SkipWs(s, i + 1))]
          [] c = "["  -> [t |-> "array", raw |-> raw, v |-> ElementsAt(SkipWs(s, i + 1))]
          [] c = "t"  -> [t |-> "boolean", raw |-> raw, v |-> TRUE]
          [] c = "f"  -> [t |-> "boolean", raw |-> raw, v |-> FALSE]
          [] c = "n"  -> [t |-> "null", raw |-> raw, v |-> <<>>]
          [] OTHER    -> [t |-> "number", raw |-> raw, v |-> IntOf(raw)]

JsonParse(s) == JValueAt(s, SkipWs(s, 0))

\* obj[key]: the last member of that name, undefined when there is none or
\* when obj is a primitive
Get(obj, key) ==
    IF obj.t # "object" THEN Undefined
    ELSE LET hits == {i \in 1..Len(obj.v) : obj.v[i].key = key}
         IN  IF hits = {} THEN Undefined
             ELSE obj.v[CHOOSE i \in hits : \A j \in hits : j <= i].value

\* a variant of Truthy that asks only whether the value is there
TruthyMutPresent(val) == val.t # "undefined"

\* a value in a boolean context
Truthy(val) ==
    CASE val.t \in {"undefined", "null"} -> FALSE
      [] val.t = "boolean" -> val.v
      [] val.t = "number"  -> val.v # 0
      [] val.t = "string"  -> val.v # <<>>
      [] OTHER             -> TRUE

\* JSON.stringify of a parsed value that is not a string
Stringify(val) == JsonCanon(val.raw)

\* a value as the event carries it: the casts of parseKiroEvent convert
\* nothing, so a string is its characters, a number or boolean itself, an
\* absent field of a usage object Null, and anything else the value
AsData(val) ==
    IF val.t \in {"string", "number", "boolean"} THEN val.v ELSE val

AsCount(val) == IF val.t = "undefined" THEN Null ELSE AsData(val)

NoEvent == [type |-> "none"]
Thrown == [type |-> "TypeError"]

Key ==
    [ content |-> <<"c","o","n","t","e","n","t">>,
      name |-> <<"n","a","m","e">>,
      toolUseId |-> <<"t","o","o","l","U","s","e","I","d">>,
      input |-> <<"i","n","p","u","t">>,
      stop |-> <<"s","t","o","p">>,
      contextUsagePercentage |-> <<"c","o","n","t","e","x","t","U","s","a","g","e","P","e","r","c","e","n","t","a","g","e">>,
      followupPrompt |-> <<"f","o","l","l","o","w","u","p","P","r","o","m","p","t">>,
      usage |-> <<"u","s","a","g","e">>,
      inputTokens |-> <<"i","n","p","u","t","T","o","k","e","n","s">>,
      outputTokens |-> <<"o","u","t","p","u","t","T","o","k","e","n","s">> ]

parseKiroEvent(parsed) ==
    LET content == Get(parsed, Key.content)
        name == Get(parsed, Key.name)
        toolUseId == Get(parsed, Key.toolUseId)
        input == Get(parsed, Key.input)
        stop == Get(parsed, Key.stop)
        pct == Get(parsed, Key.contextUsagePercentage)
        followupPrompt == Get(parsed, Key.followupPrompt)
        u == Get(parsed, Key.usage)
    IN  IF content.t # "undefined" THEN Content(AsData(content))
        ELSE IF Truthy(name) /\ Truthy(toolUseId)
        THEN ToolUse(AsData(toolUseId), AsData(name),
                     IF input.t = "string" THEN input.v
                     ELSE IF input.t \in {"object", "array"} /\ Len(input.v) > 0
                     THEN Stringify(input)
                     ELSE <<>>,
                     stop)
        ELSE IF input.t # "undefined" /\ ~Truthy(name)
        THEN ToolUseInput(IF input.t = "string" THEN input.v ELSE Stringify(input))
        ELSE IF stop.t # "undefined" /\ pct.t = "undefined" THEN ToolUseStop(AsData(stop))
        ELSE IF pct.t # "undefined" THEN ContextUsage(AsData(pct))
        ELSE IF followupPrompt.t # "undefined"
        THEN [type |-> "followupPrompt", data |-> AsData(followupPrompt)]
        ELSE IF u.t = "null" THEN Thrown
        ELSE IF u.t # "undefined"
        THEN Usage(AsCount(Get(u, Key.inputTokens)), AsCount(Get(u, Key.outputTokens)))
        ELSE NoEvent

\* a variant of EVENT_PATTERNS that takes any object for an event
EVENT_PATTERNSMutAnyKey == << <<"{","\"">> >>

EVENT_PATTERNS ==
    << <<"{","\"","c","o","n","t","e","n","t","\"",":">>,
       <<"{","\"","n","a","m","e","\"",":">>,
       <<"{","\"","i","n","p","u","t","\"",":">>,
       <<"{","\"","s","t","o","p","\"",":">>,
       <<"{","\"","c","o","n","t","e","x","t","U","s","a","g","e","P","e","r","c","e","n","t","a","g","e","\"",":">>,
       <<"{","\"","f","o","l","l","o","w","u","p","P","r","o","m","p","t","\"",":">>,
       <<"{","\"","u","s","a","g","e","\"",":">>,
       <<"{","\"","t","o","o","l","U","s","e","I","d","\"",":">>,
       <<"{","\"","u","n","i","t","\"",":">> >>

\* a variant of findNextEventStart that takes the first brace for a start
findNextEventStartMutFirstBrace(buffer, from) == IndexOfFrom(buffer, <<"{">>, from)

findNextEventStart(buffer, from) ==
    LET found == {IndexOfFrom(buffer, EVENT_PATTERNS[k], from) : k \in 1..Len(EVENT_PATTERNS)}
                    \ {-1}
    IN  IF found = {} THEN -1 ELSE CHOOSE i \in found : \A j \in found : i <= j

\* lines 122-128: the events one brace-balanced span contributes
SpanEvents(text) ==
    IF ~JsonParses(text) THEN <<>>
    ELSE SelectSeq(<<parseKiroEvent(JsonParse(text))>>,
                   LAMBDA e : e.type \notin {"none", "TypeError"})

\* a variant of the loop whose remainder starts where the search started
RECURSIVE parseKiroEventsFromMutKeepSkipped(_, _, _)
parseKiroEventsFromMutKeepSkipped(buffer, pos, evs) ==
    LET Span(jsonStart, jsonEnd) ==
            IF jsonEnd < 0
            THEN [events |-> evs, remaining |-> Substring(buffer, pos, Len(buffer))]
            ELSE parseKiroEventsFromMutKeepSkipped(buffer, jsonEnd + 1,
                    evs \o SpanEvents(Substring(buffer, jsonStart, jsonEnd + 1)))
        At(jsonStart) ==
            IF jsonStart < 0 THEN [events |-> evs, remaining |-> <<>>]
            ELSE Span(jsonStart, findJsonEnd(buffer, jsonStart))
    IN  IF pos >= Len(buffer) THEN [events |-> evs, remaining |-> <<>>]
        ELSE At(findNextEventStart(buffer, pos))

\* the while loop of parseKiroEvents from position pos on
RECURSIVE parseKiroEventsFrom(_, _, _)
parseKiroEventsFrom(buffer, pos, evs) ==
    LET Span(jsonStart, jsonEnd) ==
            IF jsonEnd < 0
            THEN [events |-> evs, remaining |-> Substring(buffer, jsonStart, Len(buffer))]
            ELSE parseKiroEventsFrom(buffer, jsonEnd + 1,
                    evs \o SpanEvents(Substring(buffer, jsonStart, jsonEnd + 1)))
        At(jsonStart) ==
            IF jsonStart < 0 THEN [events |-> evs, remaining |-> <<>>]
            ELSE Span(jsonStart, findJsonEnd(buffer, jsonStart))
    IN  IF pos >= Len(buffer) THEN [events |-> evs, remaining |-> <<>>]
        ELSE At(findNextEventStart(buffer, pos))

parseKiroEvents(buffer) == parseKiroEventsFrom(buffer, 0, <<>>)

(***************************************************************************)
(* The frame scanner on its own: parseKiroEvents applied to one buffer,    *)
(* built from well-formed anchored fragments with framing noise around     *)
(* them and, possibly, the beginning of one more fragment at its end.      *)
(* Each fragment of the menu carries the event its text stands for         *)
(* (NoEvent when parseKiroEvent returns null or throws on it).             *)
(***************************************************************************)
MaxFragments == 2

FragmentMenu ==
    { [text |-> <<"{","\"","c","o","n","t","e","n","t","\"",":","\"","h","i","\"","}">>,
        event |-> Content(<<"h","i">>)],
      [text |-> <<"{","\"","c","o","n","t","e","n","t","\"",":","\"","a","}","{","b","\"","}">>,
        event |-> Content(<<"a","}","{","b">>)],
      [text |-> <<"{","\"","n","a","m","e","\"",":","\"","f","\"",",","\"","t","o","o","l","U","s","e","I","d","\"",":","\"","t","\"","}">>,
        event |-> ToolUse(<<"t">>, <<"f">>, <<>>, Undefined)],
      [text |-> <<"{","\"","i","n","p","u","t","\"",":","\"","{","\\","\"","c","\\","\"",":","\"","}">>,
        event |-> ToolUseInput(<<"{","\"","c","\"",":">>)],
      [text |-> <<"{","\"","s","t","o","p","\"",":","t","r","u","e","}">>,
        event |-> ToolUseStop(TRUE)],
      [text |-> <<"{","\"","c","o","n","t","e","x","t","U","s","a","g","e","P","e","r","c","e","n","t","a","g","e","\"",":","8","}">>,
        event |-> ContextUsage(8)],
      [text |-> <<"{","\"","u","s","a","g","e","\"",":","{","\"","i","n","p","u","t","T","o","k","e","n","s","\"",":","5","}","}">>,
        event |-> Usage(5, Null)],
      [text |-> <<"{","\"","f","o","l","l","o","w","u","p","P","r","o","m","p","t","\"",":","\"","q","\"","}">>,
        event |-> [type |-> "followupPrompt", data |-> <<"q">>]],
      [text |-> <<"{","\"","u","n","i","t","\"",":","\"","x","\"","}">>,
        event |-> NoEvent],
      [text |-> <<"{","\"","u","s","a","g","e","\"",":","n","u","l","l","}">>,
        event |-> NoEvent] }
NoiseMenu ==
    { <<>>,
      <<"x",":","{">>,
      <<"{","\"","x","\"",":","1","}">> }

\* a fragment whose last characters have not arrived yet; the first of
\* them stops inside the anchor itself
TailMenu ==
    { <<>>,
      <<"{","\"","c","o","n","t">>,
      <<"{","\"","c","o","n","t","e","n","t","\"",":","\"","a","}">> }
        \cup {SubSeq(f.text, 1, Len(f.text) - 1) :
                 f \in {g \in FragmentMenu :
                          g.event.type \in {"toolUse", "toolUseInput", "toolUseStop", "usage"}}}

\* noise, fragment, noise, ..., fragment, noise
RECURSIVE Framed(_, _)
Framed(frs, ns) ==
    IF frs = <<>> THEN ns[1]
    ELSE ns[1] \o frs[1].text \o Framed(Tail(frs), Tail(ns))

RunScan ==
    LET ScanCall(frs, ns, tail, buffer) ==
            [op |-> "scan", fragments |-> frs, noise |-> ns, tail |-> tail,
             buffer |-> buffer, result |-> parseKiroEvents(buffer)]
    IN
    /\ call = NoCall
    /\ \E k \in 0..MaxFragments :
         \E frs \in [1..k -> FragmentMenu], ns \in [1..(k + 1) -> NoiseMenu],
            tail \in TailMenu :
            call' = ScanCall(frs, ns, tail, Framed(frs, ns) \o tail)
    /\ UNCHANGED streamVars

\* objects whose first key is not an anchor key: the fourth example of the
\* classifier in the spec, objects with a nested object or array element
\* that begins with an anchor key, one with anchor keys after the first,
\* and one with an anchor inside a string
UnanchoredMenu ==
    { <<"{","\"","t","i","m","e","s","t","a","m","p","\"",":","1","2","3",",","\"","c","o","n","t","e","n","t","\"",":","\"","h","e","l","l","o","\"","}">>,
      <<"{","\"","t","\"",":","1",",","\"","n","\"",":","{","\"","c","o","n","t","e","n","t","\"",":","\"","x","\"","}","}">>,
      <<"{","\"","t","\"",":","[","{","\"","s","t","o","p","\"",":","t","r","u","e","}","]","}">>,
      <<"{","\"","a","\"",":","{","\"","b","\"",":","1","}",",","\"","n","a","m","e","\"",":","\"","f","\"",",","\"","t","o","o","l","U","s","e","I","d","\"",":","\"","t","\"","}">>,
      <<"{","\"","x","\"",":","\"","{","\\","\"","c","o","n","t","e","n","t","\\","\"",":","1","}","\"","}">> }

\* parseKiroEvents on such an object with fragments before and after it
RunScanUnanchored ==
    LET ScanUnanchoredCall(pre, obj, post, buffer) ==
            [op |-> "scanUnanchored", pre |-> pre, object |-> obj, post |-> post,
             buffer |-> buffer, result |-> parseKiroEvents(buffer)]
    IN
    /\ call = NoCall
    /\ \E obj \in UnanchoredMenu, k, l \in 0..1 :
         \E pre \in [1..k -> FragmentMenu], post \in [1..l -> FragmentMenu] :
            call' = ScanUnanchoredCall(pre, obj, post,
                        Framed(pre, [i \in 1..(k + 1) |-> <<>>]) \o obj
                        \o Framed(post, [i \in 1..(l + 1) |-> <<>>]))
    /\ UNCHANGED streamVars

MaxChunks == 2

\* the text cut after the given positions (increasing), from position from on
RECURSIVE ChunksOf(_, _, _)
ChunksOf(text, cuts, from) ==
    IF cuts = <<>> THEN <<SubSeq(text, from + 1, Len(text))>>
    ELSE <<SubSeq(text, from + 1, Head(cuts))>> \o ChunksOf(text, Tail(cuts), Head(cuts))

\* The read loop's use of the scanner (stream.ts lines 305-307): each chunk
\* is appended to the buffer, the buffer is scanned, and the remainder is
\* the next buffer.  The byte stream is cut into chunks at every position.
RunChunked ==
    LET StreamMenu ==
            { <<"{","\"","c","o","n","t","e","n","t","\"",":","\"","h","i","\"","}">>,
              <<"{","\"","c","o","n","t","e","n","t","\"",":","\"","h","i","\"","}","{","\"","s","t","o","p","\"",":","t","r","u","e","}">>,
              <<"x","{","\"","i","n","p","u","t","\"",":","\"","{","\\","\"","a","\\","\"",":","\"","}","y","{","\"","c","o","n","t","e","n","t","\"",":","\"","a","}","\"","}">>,
              <<"{","\"","n","a","m","e","\"",":","\"","f","\"",",","\"","t","o","o","l","U","s","e","I","d","\"",":","\"","t","\"","}",":","{","\"","u","s","a","g","e","\"",":","{","\"","i","n","p","u","t","T","o","k","e","n","s","\"",":","5","}","}">> }
        RECURSIVE Drain(_, _, _)
        Drain(buffer, chunks, evs) ==
            IF chunks = <<>> THEN [events |-> evs, remaining |-> buffer]
            ELSE Drain(parseKiroEvents(buffer \o Head(chunks)).remaining, Tail(chunks),
                       evs \o parseKiroEvents(buffer \o Head(chunks)).events)
        ChunkedCall(text, cuts, chunks) ==
            [op |-> "chunked", buffer |-> text, cuts |-> cuts, chunks |-> chunks,
             whole |-> parseKiroEvents(text), result |-> Drain(<<>>, chunks, <<>>)]
    IN
    /\ call = NoCall
    /\ \E text \in StreamMenu, k \in 0..(MaxChunks - 1) :
         \E cuts \in [1..k -> 1..(Len(text) - 1)] :
            /\ \A i \in 1..(k - 1) : cuts[i] < cuts[i + 1]
            /\ call' = ChunkedCall(text, cuts, ChunksOf(text, cuts, 0))
    /\ UNCHANGED streamVars

SpecParse == InitRetry /\ [][RunScan \/ RunScanUnanchored \/ RunChunked]_vars

\* the events the fragments stand for, in order
ExpectedEvents(frs) ==
    SelectSeq([i \in 1..Len(frs) |-> frs[i].event], LAMBDA e : e.type # "none")

\* C13: a buffer of well-formed anchored fragments with framing noise
\* between them (stray braces, no anchor) gives exactly the event of each
\* classifiable fragment, in buffer order, nothing of the noise in any
\* payload, and an empty remainder.
C13_FramedFragments ==
    (call.op = "scan" /\ call.tail = <<>>) =>
        /\ call.result.events = ExpectedEvents(call.fragments)
        /\ call.result.remaining = <<>>

C13_Witness ==
    /\ call.op = "scan"
    /\ call.tail = <<>>
    /\ Len(call.fragments) = 2
    /\ call.noise = << <<"x",":","{">>, <<"{","\"","x","\"",":","1","}">>, <<"x",":","{">> >>
    /\ call.fragments[2].event.type = "none"
    /\ call.result.events = << Content(<<"a","}","{","b">>) >>

Absent == <<>>
JNull == <<"n","u","l","l">>
JEmptyString == <<"\"","\"">>

KeyOrder ==
    << "content", "name", "toolUseId", "input", "stop",
       "contextUsagePercentage", "followupPrompt", "usage" >>

ObjectMenu ==
    [ content : {Absent, <<"\"","h","i","\"">>, JNull},
      name : {Absent, <<"\"","f","\"">>, JEmptyString},
      toolUseId : {Absent, <<"\"","t","\"">>, JEmptyString},
      input : {Absent, <<"\"","q","\"">>, <<"{","}">>, <<"{","\"","a","\"",":","1","}">>},
      stop : {Absent, <<"t","r","u","e">>},
      contextUsagePercentage : {Absent, <<"8">>, <<"0">>},
      followupPrompt : {Absent, <<"\"","q","\"">>},
      usage : {Absent, <<"{","\"","i","n","p","u","t","T","o","k","e","n","s","\"",":","5","}">>, JNull} ]

\* the text of the object: its members in KeyOrder
ObjectText(o) ==
    LET RECURSIVE Members(_)
        Members(ks) ==
            IF ks = <<>> THEN <<>>
            ELSE IF o[Head(ks)] = Absent THEN Members(Tail(ks))
            ELSE <<",", "\"">> \o Key[Head(ks)] \o <<"\"", ":">> \o o[Head(ks)]
                 \o Members(Tail(ks))
        Body(ms) == IF ms = <<>> THEN <<>> ELSE Tail(ms)
    IN  <<"{">> \o Body(Members(KeyOrder)) \o <<"}">>

RunClassify ==
    LET ClassifyCall(o, text) ==
            [op |-> "classify", object |-> o, text |-> text,
             result |-> parseKiroEvent(JsonParse(text))]
    IN
    /\ call = NoCall
    /\ \E o \in ObjectMenu : call' = ClassifyCall(o, ObjectText(o))
    /\ UNCHANGED streamVars

SpecClassify == InitRetry /\ [][RunClassify]_vars

Has(o, k) == o[k] # Absent

\* the kind first-match precedence over the presence of fields gives
KindByPresence(o) ==
    IF Has(o, "content") THEN "content"
    ELSE IF Has(o, "name") /\ Has(o, "toolUseId") THEN "toolUse"
    ELSE IF Has(o, "input") /\ ~Has(o, "name") THEN "toolUseInput"
    ELSE IF Has(o, "stop") /\ ~Has(o, "contextUsagePercentage") THEN "toolUseStop"
    ELSE IF Has(o, "contextUsagePercentage") THEN "contextUsage"
    ELSE IF Has(o, "followupPrompt") THEN "followupPrompt"
    ELSE IF Has(o, "usage") THEN "usage"
    ELSE "none"

\* a name or toolUseId that counts: present and not the empty string
Filled(o, k) == o[k] \notin {Absent, JEmptyString}

\* the same precedence with name and toolUseId counted only when filled,
\* and a null usage raising instead of classifying
KindByCode(o) ==
    IF Has(o, "content") THEN "content"
    ELSE IF Filled(o, "name") /\ Filled(o, "toolUseId") THEN "toolUse"
    ELSE IF Has(o, "input") /\ ~Filled(o, "name") THEN "toolUseInput"
    ELSE IF Has(o, "stop") /\ ~Has(o, "contextUsagePercentage") THEN "toolUseStop"
    ELSE IF Has(o, "contextUsagePercentage") THEN "contextUsage"
    ELSE IF Has(o, "followupPrompt") THEN "followupPrompt"
    ELSE IF o.usage = JNull THEN "TypeError"
    ELSE IF Has(o, "usage") THEN "usage"
    ELSE "none"

\* C15 as stated: parseKiroEvent classifies every object by first-match
\* precedence over field presence (content, then name with toolUseId, then
\* input without name, then stop without contextUsagePercentage, then
\* contextUsagePercentage, followupPrompt, usage, else none).
C15_PresencePrecedence ==
    call.op = "classify" => call.result.type = KindByPresence(call.object)

\* C15 amended: the precedence is that one with name and toolUseId counted
\* only when they are non-empty, and with a null usage raising a TypeError
\* instead of giving a Usage event; an object with toolUseId and stop and
\* neither name, content nor input is ToolUseStop.
C15_TruthyPrecedence ==
    call.op = "classify" =>
        /\ call.result.type = KindByCode(call.object)
        /\ ( /\ Filled(call.object, "toolUseId") /\ Has(call.object, "stop")
             /\ ~Has(call.object, "name") /\ ~Has(call.object, "content")
             /\ ~Has(call.object, "input") /\ ~Has(call.object, "contextUsagePercentage") )
           => call.result = ToolUseStop(TRUE)

C15_Witness ==
    /\ call.op = "classify"
    /\ call.text = << "{","\"","n","a","m","e","\"",":","\"","\"",",",
                      "\"","t","o","o","l","U","s","e","I","d","\"",":","\"","t","\"",",",
                      "\"","i","n","p","u","t","\"",":","\"","q","\"",",",
                      "\"","s","t","o","p","\"",":","t","r","u","e","}" >>
    /\ call.result = ToolUseInput(<<"q">>)

\* C16 as stated: an object of the buffer whose first key is not an anchor
\* key produces no event, whatever other keys or nested values it has.
C16_UnanchoredNoEvent ==
    call.op = "scanUnanchored" =>
        call.result.events = ExpectedEvents(call.pre \o call.post)

\* C16 amended: such an object produces no event provided no anchor occurs
\* anywhere in its text (no nested object begins with an anchor key).
AnchorKeys ==
    { Key.content, Key.name, Key.input, Key.stop, Key.contextUsagePercentage,
      Key.followupPrompt, Key.usage, Key.toolUseId, <<"u","n","i","t">> }

HasAnchor(text) ==
    \E k \in AnchorKeys : Includes(text, <<"{", "\"">> \o k \o <<"\"", ":">>)

C16_NoAnchorNoEvent ==
    (call.op = "scanUnanchored" /\ ~HasAnchor(call.object)) =>
        /\ call.result.events = ExpectedEvents(call.pre \o call.post)
        /\ call.result.remaining = <<>>

C16_Witness ==
    /\ call.op = "scanUnanchored"
    /\ Includes(call.object, <<"t","i","m","e","s","t","a","m","p">>)
    /\ Includes(call.object, <<"\"","c","o","n","t","e","n","t","\"">>)
    /\ Len(call.pre) = 1 /\ Len(call.post) = 1
    /\ call.result.events = << Content(<<"h","i">>), ToolUseStop(TRUE) >>

(***************************************************************************)
(* Tool calls from the wire to the message: the fragments of one response  *)
(* go through parseKiroEvents, the event loop and the finalization.  Each  *)
(* fragment of the menu carries what it says: which kind of fragment it    *)
(* is, the call id of a toolUse, the input text it contributes and whether *)
(* it stops the call.                                                      *)
(***************************************************************************)
MaxWireFragments == 4

WireMenu ==
    { [text |-> <<"{","\"","n","a","m","e","\"",":","\"","f","\"",",","\"","t","o","o","l","U","s","e","I","d","\"",":","\"","t","\"",",","\"","i","n","p","u","t","\"",":","{","}","}">>,
       says |-> [kind |-> "toolUse", id |-> <<"t">>, input |-> <<>>, stop |-> FALSE]],
      [text |-> <<"{","\"","n","a","m","e","\"",":","\"","f","\"",",","\"","t","o","o","l","U","s","e","I","d","\"",":","\"","t","\"","}">>,
       says |-> [kind |-> "toolUse", id |-> <<"t">>, input |-> <<>>, stop |-> FALSE]],
      [text |-> <<"{","\"","i","n","p","u","t","\"",":","\"","{","\\","\"","a","\\","\"",":","\"","}">>,
       says |-> [kind |-> "input", id |-> <<>>, input |-> <<"{","\"","a","\"",":">>, stop |-> FALSE]],
      [text |-> <<"{","\"","i","n","p","u","t","\"",":","\"","1","}","\"","}">>,
       says |-> [kind |-> "input", id |-> <<>>, input |-> <<"1","}">>, stop |-> FALSE]],
      [text |-> <<"{","\"","s","t","o","p","\"",":","t","r","u","e","}">>,
       says |-> [kind |-> "stop", id |-> <<>>, input |-> <<>>, stop |-> TRUE]],
      [text |-> <<"{","\"","n","a","m","e","\"",":","\"","f","\"",",","\"","t","o","o","l","U","s","e","I","d","\"",":","\"","t","\"",",","\"","i","n","p","u","t","\"",":","\"","1","}","\"","}">>,
       says |-> [kind |-> "toolUse", id |-> <<"t">>, input |-> <<"1","}">>, stop |-> FALSE]],
      [text |-> <<"{","\"","n","a","m","e","\"",":","\"","g","\"",",","\"","t","o","o","l","U","s","e","I","d","\"",":","\"","u","\"",",","\"","s","t","o","p","\"",":","t","r","u","e","}">>,
       says |-> [kind |-> "toolUse", id |-> <<"u">>, input |-> <<>>, stop |-> TRUE]],
      [text |-> <<"{","\"","i","n","p","u","t","\"",":","{","\"","a","\"",":","1","}","}">>,
       says |-> [kind |-> "input", id |-> <<>>, input |-> <<"{","\"","a","\"",":","1","}">>, stop |-> FALSE]],
      [text |-> <<"{","\"","i","n","p","u","t","\"",":","\"","x","\"","}">>,
       says |-> [kind |-> "input", id |-> <<>>, input |-> <<"x">>, stop |-> FALSE]],
      [text |-> <<"{","\"","i","n","p","u","t","\"",":","\""," ","\"","}">>,
       says |-> [kind |-> "input", id |-> <<>>, input |-> <<" ">>, stop |-> FALSE]] }

\* lines 338 and 345 read stop as a condition
LoopEvent(e) == IF e.type = "toolUse" THEN [e EXCEPT !.stop = Truthy(@)] ELSE e

RECURSIVE Joined(_)
Joined(frs) == IF frs = <<>> THEN <<>> ELSE Head(frs).text \o Joined(Tail(frs))

RunWire ==
    LET Run(loopEvents) == Finalize(ProcessEvents(AttemptStart, loopEvents))
        WireCall(frs, parsed) ==
            [op |-> "wire", fragments |-> frs, parsed |-> parsed,
             result |-> Run([i \in 1..Len(parsed.events) |-> LoopEvent(parsed.events[i])])]
    IN
    /\ call = NoCall
    /\ \E frs \in SeqsUpTo(WireMenu, MaxWireFragments) :
         call' = WireCall(frs, parseKiroEvents(Joined(frs)))
    /\ UNCHANGED streamVars

\* The loop and the finalization on events that mix answer text written in
\* the bracket syntax with native tool calls: a complete call, a
\* placeholder that never gets its input, and a call whose input is not JSON.
RunFallback ==
    LET FallbackMenu ==
            { Content(<<"[","C","a","l","l","e","d"," ","h"," ","w","i","t","h"," ","a","r","g","s",":"," ","{","\"","a","\"",":","1","}","]">>),
              Content(<<"h","i"," ">>),
              ToolUse(<<"t">>, <<"f">>, <<"{","}">>, TRUE),
              ToolUse(<<"t">>, <<"f">>, <<>>, FALSE),
              ToolUse(<<"u">>, <<"g">>, <<"x">>, TRUE) }
        FallbackCall(es, before) ==
            [op |-> "fallback", events |-> es, before |-> before, result |-> Finalize(before)]
    IN
    /\ call = NoCall
    /\ \E es \in SeqsUpTo(FallbackMenu, MaxWireFragments) :
         call' = FallbackCall(es, ProcessEvents(AttemptStart, es))
    /\ UNCHANGED streamVars

SpecWire == InitRetry /\ [][RunWire \/ RunFallback]_vars

\* the calls the fragments assemble into, in the order they are archived:
\* cur is the call being assembled (none: <<>>), done the archived ones
RECURSIVE Assembled(_, _, _)
Assembled(frs, cur, done) ==
    IF frs = <<>> THEN done \o cur
    ELSE LET f == Head(frs).says
             grown == IF cur = <<>> THEN cur
                      ELSE <<[cur[1] EXCEPT !.input = @ \o f.input]>>
             same == cur # <<>> /\ cur[1].id = f.id
             opened == IF same THEN grown ELSE <<[id |-> f.id, input |-> f.input]>>
             before == IF same THEN done ELSE done \o cur
         IN  CASE f.kind = "toolUse" /\ f.stop -> Assembled(Tail(frs), <<>>, before \o opened)
               [] f.kind = "toolUse" /\ ~f.stop -> Assembled(Tail(frs), opened, before)
               [] f.kind = "input" -> Assembled(Tail(frs), grown, done)
               [] f.kind = "stop" -> Assembled(Tail(frs), <<>>, done \o cur)

ToolBlocks(content) == SelectSeq(content, LAMBDA b : b.type = "toolCall")

\* a placeholder toolUse (no input text), input fragments, a stop
IsPlaceholderRun(frs) ==
    /\ Len(frs) >= 3
    /\ frs[1].says.kind = "toolUse" /\ frs[1].says.input = <<>> /\ ~frs[1].says.stop
    /\ frs[Len(frs)].says.kind = "stop"
    /\ \A i \in 2..(Len(frs) - 1) : frs[i].says.kind = "input"

InputsOf(frs) == Flatten([i \in 1..Len(frs) |-> frs[i].says.input])

\* C17: the accumulated input of each tool call is the concatenation, in
\* arrival order, of the input of the ToolUse that opened it, of the later
\* ToolUse fragments of the same id and of the ToolUseInput fragments that
\* arrive while it is current; an empty-object input contributes nothing,
\* so a placeholder followed by input fragments and a stop gives one call
\* whose arguments are the parse of the concatenated fragments.
C17_InputAccumulation ==
    call.op = "wire" =>
        LET calls == call.result.att.toolCalls
            want == Assembled(call.fragments, <<>>, <<>>)
        IN  /\ Len(calls) = Len(want)
            /\ \A i \in 1..Len(calls) : calls[i].input = want[i].input
            /\ (IsPlaceholderRun(call.fragments) /\ JsonParses(InputsOf(call.fragments)))
               => /\ Len(ToolBlocks(call.result.output.content)) = 1
                  /\ ToolBlocks(call.result.output.content)[1].arguments
                        = JsonCanon(InputsOf(call.fragments))

C17_Witness ==
    /\ call.op = "wire"
    /\ Len(call.fragments) = 4
    /\ IsPlaceholderRun(call.fragments)
    /\ Includes(call.fragments[1].text, <<"\"","i","n","p","u","t","\"",":","{","}">>)
    /\ Len(ToolBlocks(call.result.output.content)) = 1
    /\ ToolBlocks(call.result.output.content)[1].arguments = JsonA1
    /\ ToolBlocks(call.result.output.content)[1].name = <<"f">>

\* a call's input is usable: not blank, and JSON
Usable(c) == Len(Trim(c.input)) > 0 /\ JsonParses(c.input)

ToolEvents(evs) ==
    SelectSeq(evs, LAMBDA e : e.type \in {"toolcall_start", "toolcall_delta", "toolcall_end"})

\* C18: an archived call whose input is blank or is not JSON gives no
\* toolcall event and no toolCall block; every other archived call gives
\* its start, delta and end, in archive order, and the stream still ends
\* with done.
C18_SkippedCallsAreLocal ==
    call.op = "wire" =>
        LET kept == SelectSeq(Assembled(call.fragments, <<>>, <<>>), Usable)
            tev == ToolEvents(call.result.events)
            blocks == ToolBlocks(call.result.output.content)
        IN  /\ Len(blocks) = Len(kept)
            /\ Len(tev) = 3 * Len(kept)
            /\ \A i \in 1..Len(kept) :
                 /\ blocks[i].id = kept[i].id
                 /\ tev[3 * i - 2].type = "toolcall_start"
                 /\ tev[3 * i - 1] = Ev("toolcall_delta", tev[3 * i - 2].contentIndex, kept[i].input)
                 /\ tev[3 * i] = Ev("toolcall_end", tev[3 * i - 2].contentIndex, blocks[i])
            /\ Last(call.result.events).type = "done"
            /\ OfType(call.result.events, "error") = <<>>

C18_Witness ==
    /\ call.op = "wire"
    /\ Len(call.fragments) = 4
    /\ Len(call.result.att.toolCalls) = 2
    /\ [i \in 1..2 |-> call.result.att.toolCalls[i].toolUseId] = << <<"u">>, <<"t">> >>
    /\ call.result.att.toolCalls[1].input = <<>>
    /\ Len(ToolBlocks(call.result.output.content)) = 1
    /\ ToolBlocks(call.result.output.content)[1].id = <<"t">>
    /\ Last(call.result.events).type = "done"

(***************************************************************************)
(* The thinking segmenter on its own: a text with one thinking block, cut  *)
(* into chunks, goes through processChunk chunk by chunk and then through  *)
(* finalize.  A text of the menu is pre, the open tag of vocabulary v, the *)
(* body, the close tag of v, and what follows: lead, then (reopen # 0)     *)
(* another tagged block of vocabulary reopen.                              *)
(***************************************************************************)
SegmentMenu ==
    [ v : 1..Len(THINKING_TAG_VARIANTS),
      pre : {<<>>, <<"a","b">>, <<"0","1","2","3","4","5","6","7","8","9","a","b","c">>},
      body : {<<>>, <<"x">>, <<"p","q","r","s","t","u","v","w","x","y","z","0","1","2">>},
      lead : {<<>>, <<"\n","\n","c","d">>},
      reopen : 0..Len(THINKING_TAG_VARIANTS) ]

PostOf(m) ==
    m.lead \o (IF m.reopen = 0 THEN <<>>
               ELSE THINKING_TAG_VARIANTS[m.reopen].open \o <<"y">>
                    \o THINKING_TAG_VARIANTS[m.reopen].close)

SegmentText(m) ==
    m.pre \o THINKING_TAG_VARIANTS[m.v].open \o m.body
          \o THINKING_TAG_VARIANTS[m.v].close \o PostOf(m)

\* the sinks after each chunk, the first one being the new parser's
Segment(chunks) ==
    LET RECURSIVE FeedChunks(_, _)
        FeedChunks(trace, rest) ==
            IF rest = <<>> THEN trace
            ELSE FeedChunks(Append(trace, processChunk(Last(trace), Head(rest))), Tail(rest))
    IN  FeedChunks(<<[p |-> NewParser, content |-> <<>>, ev |-> <<>>]>>, chunks)

RunSegment ==
    LET SegmentCall(m, text, cuts, trace) ==
            [op |-> "segment", m |-> m, text |-> text, cuts |-> cuts,
             chunks |-> ChunksOf(text, cuts, 0), trace |-> trace,
             result |-> finalize(Last(trace))]
    IN
    /\ call = NoCall
    /\ \E m \in SegmentMenu, k \in 0..(MaxChunks - 1) :
         \E cuts \in [1..k -> 1..(Len(SegmentText(m)) - 1)] :
            /\ \A i \in 1..(k - 1) : cuts[i] < cuts[i + 1]
            /\ call' = SegmentCall(m, SegmentText(m), cuts,
                                   Segment(ChunksOf(SegmentText(m), cuts, 0)))
    /\ UNCHANGED streamVars

\* a text whose thinking block never closes (opened), or with no tag at
\* all: pre, the open tag of vocabulary v when opened, the body, and the
\* first tail characters of the close tag
RunTruncated ==
    LET TruncatedMenu ==
            [ v : 1..Len(THINKING_TAG_VARIANTS),
              pre : {<<>>, <<"a","b">>},
              opened : BOOLEAN,
              body : {<<>>, <<"x">>, <<"p","q","r","s","t","u","v","w","x","y","z","0","1","2">>},
              tail : {0, 4} ]
        TruncatedText(m) ==
            m.pre \o (IF m.opened THEN THINKING_TAG_VARIANTS[m.v].open ELSE <<>>)
                  \o m.body \o SubSeq(THINKING_TAG_VARIANTS[m.v].close, 1, m.tail)
        TruncatedCall(m, text, cuts, trace) ==
            [op |-> "truncated", m |-> m, text |-> text, cuts |-> cuts,
             chunks |-> ChunksOf(text, cuts, 0), trace |-> trace,
             result |-> finalize(Last(trace))]
    IN
    /\ call = NoCall
    /\ \E m \in TruncatedMenu, k \in 0..(MaxChunks - 1) :
         \E cuts \in [1..k -> 1..(Len(TruncatedText(m)) - 1)] :
            /\ \A i \in 1..(k - 1) : cuts[i] < cuts[i + 1]
            /\ call' = TruncatedCall(m, TruncatedText(m), cuts,
                                     Segment(ChunksOf(TruncatedText(m), cuts, 0)))
    /\ UNCHANGED streamVars

\* a block of vocabulary v whose body holds tags of vocabulary w: its open
\* tag, its close tag, or both
RunForeign ==
    LET ForeignMenu ==
            [ v : 1..Len(THINKING_TAG_VARIANTS),
              w : 1..Len(THINKING_TAG_VARIANTS),
              pre : {<<>>, <<"a","b">>},
              inner : {"open", "close", "both"} ]
        ForeignText(m) ==
            m.pre \o THINKING_TAG_VARIANTS[m.v].open \o <<"x">>
                  \o (IF m.inner # "close" THEN THINKING_TAG_VARIANTS[m.w].open ELSE <<>>)
                  \o <<"y">>
                  \o (IF m.inner # "open" THEN THINKING_TAG_VARIANTS[m.w].close ELSE <<>>)
                  \o <<"z">> \o THINKING_TAG_VARIANTS[m.v].close \o <<"t">>
        ForeignCall(m, text, cuts, trace) ==
            [op |-> "foreign", m |-> m, text |-> text, cuts |-> cuts,
             chunks |-> ChunksOf(text, cuts, 0), trace |-> trace,
             result |-> finalize(Last(trace))]
    IN
    /\ call = NoCall
    /\ \E m \in ForeignMenu, k \in 0..(MaxChunks - 1) :
         \E cuts \in [1..k -> 1..(Len(ForeignText(m)) - 1)] :
            /\ \A i \in 1..(k - 1) : cuts[i] < cuts[i + 1]
            /\ call' = ForeignCall(m, ForeignText(m), cuts,
                                   Segment(ChunksOf(ForeignText(m), cuts, 0)))
    /\ UNCHANGED streamVars

SpecThinking == InitRetry /\ [][RunSegment \/ RunTruncated \/ RunForeign]_vars

ThinkingDeltas(evs) ==
    LET ds == OfType(evs, "thinking_delta") IN [i \in 1..Len(ds) |-> ds[i].data]

\* the end of the close tag of the block, as a position of the text
CloseEnd(m) ==
    Len(m.pre) + Len(THINKING_TAG_VARIANTS[m.v].open) + Len(m.body)
        + Len(THINKING_TAG_VARIANTS[m.v].close)

\* the events chunk i added (the trace starts with the new parser's sink)
AddedBy(trace, i) == SubSeq(trace[i + 1].ev, Len(trace[i].ev) + 1, Len(trace[i + 1].ev))

\* C19: once the close tag has been matched, no later chunk gives a
\* thinking_start or a thinking_delta, even one that holds an open tag:
\* each later chunk is emitted as it is, as one text delta, and finalize
\* adds nothing; there is at most one thinking block, holding the body.
C19_ExtractedIsLatched ==
    call.op = "segment" =>
        /\ \A i \in 1..Len(call.cuts) :
             call.cuts[i] >= CloseEnd(call.m) =>
                /\ TextDeltas(AddedBy(call.trace, i + 1)) = <<call.chunks[i + 1]>>
                /\ \A j \in 1..Len(AddedBy(call.trace, i + 1)) :
                      AddedBy(call.trace, i + 1)[j].type \in {"text_start", "text_delta"}
                /\ call.result = Last(call.trace)
        /\ Len(OfType(call.result.ev, "thinking_start")) <= 1
        /\ Len(OfType(call.result.content, "thinking")) <= 1
        /\ Flatten(ThinkingDeltas(call.result.ev)) = call.m.body

C19_Witness ==
    /\ call.op = "segment"
    /\ call.m.reopen # 0 /\ call.m.reopen # call.m.v
    /\ call.m.body # <<>>
    /\ call.cuts = <<CloseEnd(call.m)>>
    /\ call.chunks[2] = PostOf(call.m)
    /\ TextDeltas(AddedBy(call.trace, 2)) = <<PostOf(call.m)>>
    /\ Len(OfType(call.result.content, "thinking")) = 1

\* the cut falls strictly inside the open tag or the close tag of the block
InsideTag(m, cut) ==
    LET openStart == Len(m.pre)
        openEnd == openStart + Len(THINKING_TAG_VARIANTS[m.v].open)
        closeStart == openEnd + Len(m.body)
    IN  \/ openStart < cut /\ cut < openEnd
        \/ closeStart < cut /\ cut < CloseEnd(m)

SameDeltas(a, b) ==
    /\ Flatten(ThinkingDeltas(a.ev)) = Flatten(ThinkingDeltas(b.ev))
    /\ Flatten(TextDeltas(a.ev)) = Flatten(TextDeltas(b.ev))

\* the separator consumed after the close tag
AfterSeparator(t) == IF StartsWith(t, <<"\n", "\n">>) THEN SliceFrom(t, 2) ELSE t

\* C20: for each of the four vocabularies and every position that splits
\* the open tag or the close tag between two chunks, the thinking deltas
\* and the text deltas, concatenated, are those of the same text arriving
\* as one chunk; they hold the body and the text around the block, and
\* nothing of the block's tags.
C20_SplitTagInvariance ==
    (call.op = "segment" /\ Len(call.cuts) = 1 /\ InsideTag(call.m, call.cuts[1])) =>
        /\ SameDeltas(call.result, finalize(Last(Segment(<<call.text>>))))
        /\ Flatten(ThinkingDeltas(call.result.ev)) = call.m.body
        /\ Flatten(TextDeltas(call.result.ev)) = call.m.pre \o AfterSeparator(PostOf(call.m))

C20_Witness ==
    /\ call.op = "segment"
    /\ call.m.v = 3
    /\ call.m.reopen = 0
    /\ Len(call.m.pre) = 13 /\ Len(call.m.body) = 14 /\ call.m.lead # <<>>
    /\ call.cuts = <<CloseEnd(call.m) - 2>>
    /\ Flatten(ThinkingDeltas(call.result.ev)) = call.m.body
    /\ Flatten(TextDeltas(call.result.ev)) = call.m.pre \o <<"c", "d">>
    /\ Len(ThinkingDeltas(call.trace[2].ev)) >= 1

\* C21 as stated: a "\n\n" that immediately follows the close tag in the
\* input is consumed, wherever the chunk boundaries fall: it is in neither
\* the thinking deltas nor the text deltas.
C21_SeparatorConsumed ==
    (call.op = "segment" /\ StartsWith(PostOf(call.m), <<"\n", "\n">>)) =>
        /\ Flatten(ThinkingDeltas(call.result.ev)) = call.m.body
        /\ Flatten(TextDeltas(call.result.ev)) = call.m.pre \o SliceFrom(PostOf(call.m), 2)

\* what finalize added to the events
AddedByFinalize == SubSeq(call.result.ev, Len(Last(call.trace).ev) + 1, Len(call.result.ev))

\* C22 as stated: finalize in the InsideThinking phase emits every
\* buffered character as thinking content, then a thinking_end, and
\* nothing of it as text; in the other phases it emits the buffered text
\* as answer text.
C22_FinalizeFlush ==
    (call.op = "truncated" /\ Last(call.trace).p.textBuffer # <<>>) =>
        IF Last(call.trace).p.inThinking
        THEN /\ Flatten(ThinkingDeltas(AddedByFinalize)) = Last(call.trace).p.textBuffer
             /\ TextDeltas(AddedByFinalize) = <<>>
             /\ Last(AddedByFinalize).type = "thinking_end"
        ELSE /\ Flatten(TextDeltas(AddedByFinalize)) = Last(call.trace).p.textBuffer
             /\ ThinkingDeltas(AddedByFinalize) = <<>>


(***************************************************************************)
(* The bracket extractor on its own: parseBracketToolCalls applied to a    *)
(* text made of pieces.  A piece is plain text, a bracket call the         *)
(* extractor accepts, one it rejects (a gap before the brace, a brace that *)
(* never closes, text before the closing bracket, arguments that are not   *)
(* JSON), or a call whose arguments hold the text of another call; names   *)
(* are the names of the calls the piece holds.  A brace that never closes  *)
(* is scanned to the end of the text: at most one piece follows it.        *)
(***************************************************************************)
MaxPieces == 3

RunBracket ==
    LET PieceMenu ==
            { [kind |-> "plain", names |-> <<>>,
               text |-> <<"h","i"," ">>],
              [kind |-> "accepted", names |-> <<<<"f">>>>,
               text |-> <<"[","C","a","l","l","e","d"," ","f"," ","w","i","t","h"," ","a","r","g","s",":"," ","{","\"","a","\"",":","1","}","]">>],
              [kind |-> "accepted", names |-> <<<<"g">>>>,
               text |-> <<"[","C","a","l","l","e","d"," ","g"," ","w","i","t","h"," ","a","r","g","s",":","{","}"," ","]">>],
              [kind |-> "gap", names |-> <<>>,
               text |-> <<"[","C","a","l","l","e","d"," ","f"," ","w","i","t","h"," ","a","r","g","s",":"," ","x","{","}","]">>],
              [kind |-> "unclosed", names |-> <<>>,
               text |-> <<"[","C","a","l","l","e","d"," ","f"," ","w","i","t","h"," ","a","r","g","s",":","{">>],
              [kind |-> "junk", names |-> <<>>,
               text |-> <<"[","C","a","l","l","e","d"," ","f"," ","w","i","t","h"," ","a","r","g","s",":","{","}"," ","x","]">>],
              [kind |-> "badJson", names |-> <<>>,
               text |-> <<"[","C","a","l","l","e","d"," ","f"," ","w","i","t","h"," ","a","r","g","s",":","{","a","}","]">>],
              [kind |-> "nested", names |-> << <<"f">>, <<"g">> >>,
               text |-> <<"[","C","a","l","l","e","d"," ","f"," ","w","i","t","h"," ","a","r","g","s",":","{","\"","a","\"",":","\"","[","C","a","l","l","e","d"," ","g"," ","w","i","t","h"," ","a","r","g","s",":","{","}","]","\"","}","]">>],
              [kind |-> "plain", names |-> <<>>,
               text |-> <<"[","x","]"," ">>] }
        BracketCall(ps, text, scan) ==
            [op |-> "bracket", pieces |-> ps, text |-> text, removals |-> scan.removals,
             result |-> BracketResult(text, scan)]
        TextOf(ps) == Flatten([i \in 1..Len(ps) |-> ps[i].text])
    IN
    /\ call = NoCall
    /\ \E ps \in SeqsUpTo(PieceMenu, MaxPieces) :
         /\ \A i \in 1..Len(ps) :
                ps[i].kind = "unclosed" =>
                    /\ i >= Len(ps) - 1
                    /\ i < Len(ps) => ps[i + 1].kind # "nested"
         /\ call' = BracketCall(ps, TextOf(ps), BracketScan(TextOf(ps), 0, <<>>, <<>>))
    /\ UNCHANGED streamVars

SpecBracket == InitRetry /\ [][RunBracket]_vars


\* what the text keeps of its pieces when every accepted call, and nothing
\* else, is taken out of it
RemainsOf(ps) ==
    Flatten([i \in 1..Len(ps) |-> IF ps[i].kind \in {"accepted", "nested"} THEN <<>> ELSE ps[i].text])

NamesOf(ps) == Flatten([i \in 1..Len(ps) |-> ps[i].names])

OutsideSpans(text, removals) ==
    LET Kept(i) == \A r \in 1..Len(removals) : ~(removals[r].start < i /\ i <= removals[r].end)
        kept == SelectSeq([i \in 1..Len(text) |-> i], Kept)
    IN  [k \in 1..Len(kept) |-> text[kept[k]]]

\* C25 as stated: for every text and any number of accepted matches,
\* cleanedText is the text without the characters of the accepted spans
\* (from the anchor's opening bracket through the closing bracket), every
\* other character kept in order.
C25_ExactlySpansRemoved ==
    call.op = "bracket" => call.result.cleanedText = OutsideSpans(call.text, call.removals)


\* the calls of a message that the bracket extractor made
BracketBlocks(content) == SelectSeq(ToolBlocks(content), LAMBDA b : b.id[1] = "uuid")

TextBlocks(content) == SelectSeq(content, LAMBDA b : b.type = "text")

HasEvent(es, type) == \E i \in 1..Len(es) : es[i].type = type

\* C23: the bracket extractor runs only when the assembly gave no tool call
\* and a text block exists: once a native tool call was assembled, no call
\* is taken from bracket syntax and the text block keeps its text; with no
\* native call, the calls written in the text are taken out of it.
C23_FallbackOnlyWithoutNative ==
    call.op = "fallback" =>
        IF HasEvent(call.events, "toolUse")
        THEN /\ BracketBlocks(call.result.output.content) = <<>>
             /\ TextBlocks(call.result.output.content) = TextBlocks(call.before.output.content)
        ELSE /\ Len(BracketBlocks(call.result.output.content))
                    = Len(SelectSeq(OfType(call.before.events, "text_delta"),
                                    LAMBDA e : Head(e.data) = "["))
             /\ \A i \in 1..Len(TextBlocks(call.result.output.content)) :
                    ~Includes(TextBlocks(call.result.output.content)[i].text, <<"[">>)

C23_Witness ==
    /\ call.op = "fallback"
    /\ HasEvent(call.events, "toolUse")
    /\ Len(TextBlocks(call.result.output.content)) = 1
    /\ Includes(TextBlocks(call.result.output.content)[1].text, <<"[","C","a","l","l","e","d">>)
    /\ Len(ToolBlocks(call.result.output.content)) = 1
    /\ ToolBlocks(call.result.output.content)[1].id = <<"t">>
    /\ Last(call.result.events).type = "done"


\* the text_delta payloads of a slot, joined in order
DeltasOfSlot(es, idx) ==
    Flatten([i \in 1..Len(SelectSeq(es, LAMBDA e : e.type = "text_delta" /\ e.contentIndex = idx))
                |-> SelectSeq(es, LAMBDA e : e.type = "text_delta" /\ e.contentIndex = idx)[i].data])

\* C26 as stated: the content carried by text_end and the text of the final
\* Text block both equal the concatenation, in order, of the text_delta
\* payloads emitted for the slot.
C26_TextEndIsDeltas ==
    call.op = "fallback" =>
        \A i \in 1..Len(call.result.events) :
            call.result.events[i].type = "text_end" =>
                /\ call.result.events[i].data
                      = DeltasOfSlot(call.result.events, call.result.events[i].contentIndex)
                /\ call.result.output.content[call.result.events[i].contentIndex + 1].text
                      = DeltasOfSlot(call.result.events, call.result.events[i].contentIndex)


\* every settled attempt so far failed with a status decideRetry does not
\* retry: 401, or 400 with a body that has no size phrase
FatalRun == statusRun \in {<<400, FALSE>>, <<401, FALSE>>}

\* C27: a failed status for which decideRetry returns none on the first
\* attempt gives exactly one fetch, no start event, and a terminal error
\* event with stopReason error whose message carries the status and the
\* body (a call that is not cancelled).
C27_FatalStatus ==
    (FatalRun /\ ~aborted /\ pc # "errText") =>
        /\ pc = "ended"
        /\ fetchCount = 1
        /\ retryCount = 0
        /\ Len(events) = 1
        /\ LastEvent.type = "error"
        /\ LastEvent.message.stopReason = "error"
        /\ Len(output.errorMessage) = 4
        /\ SubSeq(output.errorMessage, 1, 3) = <<"Kiro API error", "status", statusRun[1]>>
        /\ output.errorMessage[4] \in ErrTexts
        /\ statusRun[1] = 400 => ~HasSizePhrase(output.errorMessage[4])
        /\ LastEvent.message.errorMessage = output.errorMessage

C27_Witness ==
    /\ statusRun = <<400, FALSE>>
    /\ ~aborted
    /\ pc = "ended"
    /\ fetchCount = 1
    /\ output.stopReason = "error"
    /\ output.errorMessage = <<"Kiro API error", "status", 400, <<"Rate", "limited">> >>


\* reductionFactor, in thousandths, after k size-triggered retries
FactorAfter(k) == <<1000, 700, 490, 343>>[k + 1]

\* every settled attempt so far failed for its size
SizeRun == statusRun \in {<<413, FALSE>>, <<400, TRUE>>}

\* a step that retries after a failed status which decideRetry answers
\* with reduce
ReduceRetry == pc = "errText" /\ retryCount' = retryCount + 1 /\ resp \in {400, 413}

\* C28: within a call reductionFactor starts at 1, a retry whose strategy is
\* reduce multiplies it by 0.7, so that k size-triggered retries leave
\* 0.7^k, and every other step, backoff and timeout retries included,
\* leaves it as it is: it is never reset.
C28_ReductionFactor ==
    /\ reductionFactor = 1000
    /\ [](SizeRun => reductionFactor = FactorAfter(retryCount))
    /\ [][reductionFactor' = IF ReduceRetry THEN (reductionFactor * 7) \div 10
                                             ELSE reductionFactor]_vars

C28_Witness ==
    /\ reductionFactor = 700
    /\ retryCount = 3
    /\ pc = "sleep"
    /\ lastDelay = 4000


\* the first-chunk deadline wins the race against the first read
FirstChunkWin == pc = "firstRead" /\ ~att.firstTokenTimedOut /\ att'.firstTokenTimedOut

\* the read that the idle deadline's cancellation resolves
IdleWin == pc = "read" /\ att.idleCancelled /\ pc' # pc

\* C29: a first-chunk or idle deadline win cancels the attempt's reader and
\* is a retryable failure: with retryCount < maxRetries the call sleeps
\* min(1000 * 2^retryCount, 30000) ms, retryCount taken before its
\* increment, and then issues the next fetch, with no size reduction; with
\* the budget spent the call ends with a terminal error; the timed-out
\* attempt never gives a done event.
C29_TimeoutRetries ==
    [][/\ (FirstChunkWin \/ IdleWin) =>
            /\ ~inFlight'
            /\ reductionFactor' = reductionFactor
            /\ fetchCount' = fetchCount
            /\ \A i \in 1..Len(events') : events'[i].type # "done"
            /\ IF retryCount < maxRetries
               THEN /\ pc' = "sleep"
                    /\ retryCount' = retryCount + 1
                    /\ lastDelay' = Min(1000 * Pow2(retryCount), 30000)
                    /\ events' = events
                    /\ ~ended'
               ELSE /\ pc' = "ended"
                    /\ ended'
                    /\ retryCount' = retryCount
                    /\ Len(events') = Len(events) + 1
                    /\ events'[Len(events')].type = "error"
       /\ (pc = "sleep" /\ pc' # pc) =>
            /\ pc' = "fetch"
            /\ fetchCount' = fetchCount + 1
            /\ reductionFactor' = reductionFactor]_vars

C29_Witness ==
    /\ pc = "sleep"
    /\ att.idleCancelled
    /\ retryCount = 3
    /\ lastDelay = 4000
    /\ reductionFactor = 1000
    /\ ~inFlight


\* the awaits during which an attempt's request or response is open
AttemptOpen == pc \in {"fetch", "errText", "firstRead", "read"}

\* C30: at most one network attempt of a call is in flight at any instant:
\* a fetch is issued only as the first of the call, or when the previous
\* attempt's response was rejected for its status and its body has settled,
\* or after the sleep that follows such a rejection or a timeout's
\* cancellation of the reader, with nothing left in flight; attempts follow
\* one another.
C30_OneAttemptInFlight ==
    /\ [](inFlight => AttemptOpen)
    /\ [](netCount <= fetchCount)
    /\ [][fetchCount' # fetchCount =>
            /\ fetchCount' = fetchCount + 1
            /\ pc' = "fetch"
            /\ \/ pc = "start" /\ fetchCount = 0 /\ ~inFlight
               \/ pc = "errText" /\ resp # 200 /\ retryCount' = retryCount + 1
               \/ /\ pc = "sleep"
                  /\ ~inFlight
                  /\ retryCount > 0
                  /\ resp # 0 \/ att.firstTokenTimedOut \/ att.idleCancelled]_vars

C30_Witness ==
    /\ pc = "fetch"
    /\ inFlight
    /\ fetchCount = 3
    /\ att.firstTokenTimedOut
    /\ resp = 413


\* the events the loop saw in a run of RunWire, and the assembler's state
\* after the first k of them
WireEvents == [i \in 1..Len(call.parsed.events) |-> LoopEvent(call.parsed.events[i])]

AssemblerAt(k) == ProcessEvents(AttemptStart, SubSeq(WireEvents, 1, k)).att

IsPrefix(s, t) == Len(s) <= Len(t) /\ SubSeq(t, 1, Len(s)) = s

\* the call opened by a ToolUse: the current one, or the last archived when
\* the event carried a stop
OpenedAt(k) ==
    IF AssemblerAt(k).currentToolCall # <<>> THEN AssemblerAt(k).currentToolCall[1]
    ELSE Last(AssemblerAt(k).toolCalls)

\* C31: after any sequence of ToolUse, ToolUseInput and ToolUseStop events
\* at most one call is current; a ToolUse with another id archives the
\* current call before it opens the new one; an archived call keeps its id,
\* name and input whatever comes later, and a ToolUse with the id of an
\* archived call opens a new call.
C31_AssemblerInvariant ==
    call.op = "wire" =>
        \A k \in 1..Len(WireEvents) :
            LET before == AssemblerAt(k - 1)
                after == AssemblerAt(k)
                e == WireEvents[k]
                same == before.currentToolCall # <<>>
                          /\ before.currentToolCall[1].toolUseId = e.toolUseId
            IN  /\ Len(after.currentToolCall) <= 1
                /\ IsPrefix(before.toolCalls, after.toolCalls)
                /\ (e.type = "toolUse" /\ ~same) =>
                      /\ before.currentToolCall # <<>> =>
                             /\ Len(after.toolCalls) > Len(before.toolCalls)
                             /\ after.toolCalls[Len(before.toolCalls) + 1]
                                    = before.currentToolCall[1]
                      /\ OpenedAt(k) = CallState(e.toolUseId, e.name, e.input)

C31_Witness ==
    /\ call.op = "wire"
    /\ Len(WireEvents) = 4
    /\ \A k \in 1..4 : WireEvents[k].type = "toolUse"
    /\ AssemblerAt(1).currentToolCall # <<>>
    /\ AssemblerAt(1).currentToolCall[1].toolUseId = <<"t">>
    /\ WireEvents[2].toolUseId = <<"u">>
    /\ WireEvents[3].toolUseId = <<"t">>
    /\ Len(AssemblerAt(3).toolCalls) = 2
    /\ AssemblerAt(3).toolCalls[1].toolUseId = <<"t">>
    /\ AssemblerAt(4).toolCalls[1] = AssemblerAt(3).toolCalls[1]


\* the same events with a stop sent before the source completes
ClosedByStop == Finalize(ProcessEvents(AttemptStart, Append(WireEvents, ToolUseStop(TRUE))))

StillCurrent == AssemblerAt(Len(WireEvents)).currentToolCall

\* C32: a tool call that is still current when the source completes is
\* archived at finalize, and when its input is not blank and parses it is
\* emitted as a ToolCall block as a call closed by a stop is: the message
\* and the events are those of the same stream with the stop.
C32_OpenCallAtCompletion ==
    (call.op = "wire" /\ StillCurrent # <<>>) =>
        /\ call.result.att.toolCalls # <<>>
        /\ Last(call.result.att.toolCalls) = StillCurrent[1]
        /\ call.result.output = ClosedByStop.output
        /\ call.result.events = ClosedByStop.events
        /\ (Len(Trim(StillCurrent[1].input)) > 0 /\ JsonParses(StillCurrent[1].input)) =>
              /\ ToolBlocks(call.result.output.content) # <<>>
              /\ Last(ToolBlocks(call.result.output.content))
                    = [type |-> "toolCall", id |-> StillCurrent[1].toolUseId,
                       name |-> StillCurrent[1].name,
                       arguments |-> JsonCanon(StillCurrent[1].input)]
              /\ Last(OfType(call.result.events, "toolcall_end")).data
                    = Last(ToolBlocks(call.result.output.content))

C32_Witness ==
    /\ call.op = "wire"
    /\ StillCurrent # <<>>
    /\ StillCurrent[1].input = <<"{", "\"", "a", "\"", ":", "1", "}">>
    /\ Len(WireEvents) = 3
    /\ \A k \in 1..3 : WireEvents[k].type # "toolUseStop"
    /\ Len(ToolBlocks(call.result.output.content)) = 1
    /\ Last(call.result.events).type = "done"


LongestOpen == MaxOf({Len(THINKING_TAG_VARIANTS[i].open) : i \in 1..Len(THINKING_TAG_VARIANTS)})
LongestClose == MaxOf({Len(THINKING_TAG_VARIANTS[i].close) : i \in 1..Len(THINKING_TAG_VARIANTS)})

\* the text fed by the first k chunks
FedBy(chunks, k) == Flatten(SubSeq(chunks, 1, k))

\* after each chunk that leaves the segmenter before the block (no open tag
\* seen) the buffer is the last openHold characters fed, or all of them, and
\* the rest went out as text; after each chunk that leaves it inside the
\* block the buffer is the last closeHold characters of the block so far,
\* or all of them, and the rest went out as thinking
HeldBack(openHold, closeHold) ==
    call.op = "truncated" =>
        \A k \in 1..Len(call.chunks) :
            LET t == call.trace[k + 1]
                fed == FedBy(call.chunks, k)
                text == Flatten(TextDeltas(t.ev))
                thinking == Flatten(ThinkingDeltas(t.ev))
            IN  /\ (~t.p.inThinking /\ ~t.p.thinkingExtracted) =>
                      /\ text \o t.p.textBuffer = fed
                      /\ Len(t.p.textBuffer) = Min(Len(fed), openHold)
                /\ t.p.inThinking =>
                      /\ IsPrefix(thinking \o t.p.textBuffer, call.m.body \o THINKING_TAG_VARIANTS[call.m.v].close)
                      /\ Len(t.p.textBuffer) = Min(Len(thinking) + Len(t.p.textBuffer), closeHold)

\* C33 as stated: with no open tag in the buffer, processChunk emits as text
\* all of it but a suffix of (longest open tag length - 1) characters, or
\* holds all of a shorter buffer; inside the block, with no close tag, it
\* emits as thinking all but (longest close tag length - 1) characters.
C33_HoldBackOneLess == HeldBack(LongestOpen - 1, LongestClose - 1)

\* C33, amended: the held-back suffix has the length of the longest open
\* tag before the block and of the longest close tag inside it.
C33_HoldBackLongestTag == HeldBack(LongestOpen, LongestClose)

C33_Witness ==
    /\ call.op = "truncated"
    /\ Len(call.chunks) = 2
    /\ call.trace[2].p.inThinking
    /\ Len(call.trace[2].p.textBuffer) = LongestClose
    /\ call.trace[3].p.inThinking
    /\ Len(call.trace[3].p.textBuffer) = LongestClose
    /\ Len(ThinkingDeltas(call.trace[3].ev)) = 2


\* the text after the first open tag of a run of RunForeign, and where the
\* close tag paired with that open tag first occurs in it
AfterOpen == SliceFrom(call.text, Len(call.m.pre) + Len(THINKING_TAG_VARIANTS[call.m.v].open))

BoundCloseAt == IndexOf(AfterOpen, THINKING_TAG_VARIANTS[call.m.v].close)

\* C34: of the open tags in the buffer the one at the smallest offset opens
\* the block and binds its own close tag; inside the block only that close
\* tag ends it, and an open tag or a close tag of another vocabulary is
\* thinking content.
C34_EarliestOpenBindsClose ==
    call.op = "foreign" =>
        /\ Flatten(ThinkingDeltas(call.result.ev)) = Slice(AfterOpen, 0, BoundCloseAt)
        /\ Flatten(TextDeltas(call.result.ev))
              = call.m.pre \o SliceFrom(AfterOpen, BoundCloseAt
                                              + Len(THINKING_TAG_VARIANTS[call.m.v].close))
        /\ call.result.p.activeEndTag = THINKING_TAG_VARIANTS[call.m.v].close
        /\ Len(OfType(call.result.ev, "thinking_end")) = 1

C34_Witness ==
    /\ call.op = "foreign"
    /\ call.m.v = 3
    /\ call.m.w = 1
    /\ call.m.inner = "both"
    /\ call.cuts = <<>>
    /\ Flatten(ThinkingDeltas(call.result.ev))
          = <<"x">> \o THINKING_TAG_VARIANTS[1].open \o <<"y">>
                   \o THINKING_TAG_VARIANTS[1].close \o <<"z">>
    /\ Flatten(TextDeltas(call.result.ev)) = <<"t">>


Positions(evs, type) == {i \in 1..Len(evs) : evs[i].type = type}

\* the archived calls that finalization emits: input not blank, and JSON
Surviving(toolCalls) ==
    SelectSeq(toolCalls, LAMBDA tc : Len(Trim(tc.input)) > 0 /\ JsonParses(tc.input))

\* the finish of a sequence that ends with done, for the assembler state a
OrderedFinish(evs, a) ==
    LET ends == OfType(evs, "toolcall_end")
        calls == Surviving(a.toolCalls)
    IN  /\ a.textBlockIndex # Null => Positions(evs, "text_end") # {}
        /\ \A i \in Positions(evs, "text_end"), j \in Positions(evs, "toolcall_start") : i < j
        /\ \A i \in Positions(evs, "toolcall_start") :
              /\ i + 2 < Len(evs)
              /\ evs[i + 1].type = "toolcall_delta"
              /\ evs[i + 2].type = "toolcall_end"
              /\ evs[i + 1].contentIndex = evs[i].contentIndex
              /\ evs[i + 2].contentIndex = evs[i].contentIndex
              /\ \A j \in 1..Len(evs) :
                    (j # i /\ evs[j].type \in {"text_start", "thinking_start", "toolcall_start"})
                        => evs[j].contentIndex # evs[i].contentIndex
        /\ Cardinality(Positions(evs, "toolcall_delta")) = Cardinality(Positions(evs, "toolcall_start"))
        /\ Len(ends) = Cardinality(Positions(evs, "toolcall_start"))
        /\ Len(ends) = Len(calls)
        /\ \A k \in 1..Len(ends) :
              /\ ends[k].data.id = calls[k].toolUseId
              /\ ends[k].data.name = calls[k].name
              /\ ends[k].data.arguments = JsonCanon(calls[k].input)
        /\ Positions(evs, "done") = {Len(evs)}

\* C35: in a sequence that ends with done, text_end, when a text slot
\* exists, precedes every toolcall_start; each surviving tool call gives
\* toolcall_start, toolcall_delta, toolcall_end as three consecutive events
\* on a slot index of its own; the calls come in the order of their
\* archiving; done follows the last toolcall_end.
C35_FinishOrder ==
    (call.op \in {"wire", "fallback"} /\ Last(call.result.events).type = "done") =>
        OrderedFinish(call.result.events, call.result.att)

C35_Witness ==
    /\ call.op = "fallback"
    /\ Len(call.events) = 4
    /\ Len(OfType(call.result.events, "text_end")) = 1
    /\ Len(OfType(call.result.events, "toolcall_start")) = 2
    /\ Len(call.result.att.toolCalls) = 3
    /\ Last(call.result.events).type = "done"


\* C36 as stated: for every byte stream and every way of cutting it into
\* chunks, a cut inside an anchor included, the loop that appends a chunk,
\* scans and keeps the remainder yields the events of one scan of the whole
\* stream: no fragment is lost or duplicated.
C36_ChunkingInvariance ==
    call.op = "chunked" => call.result.events = call.whole.events


\* the events of the attempt that ended the call: those after the last start
LastStartAt == CHOOSE i \in Positions(events, "start") : \A j \in Positions(events, "start") : j <= i

LastAttemptEvents == SubSeq(events, LastStartAt + 1, Len(events))

SlotStarts(evs) ==
    SelectSeq(evs, LAMBDA e : e.type \in {"text_start", "thinking_start", "toolcall_start"})

\* C37 as stated: when an attempt was abandoned by a first-chunk or idle
\* timeout and a later attempt succeeds, the message of done holds content
\* blocks and usage of the successful attempt only: every block is a slot
\* that attempt opened, and the input count is one that attempt received.
C37_DoneFromSuccessfulAttempt ==
    (events # <<>> /\ Last(events).type = "done" /\ Len(OfType(events, "start")) > 1) =>
        /\ Len(Last(events).message.content) = Len(SlotStarts(LastAttemptEvents))
        /\ (~att.receivedContextUsage /\ att.usageEvent = <<>>) =>
              Last(events).message.usage.input = 0


EndOf(type) ==
    CASE type = "text_start" -> "text_end"
      [] type = "thinking_start" -> "thinking_end"
      [] type = "toolcall_start" -> "toolcall_end"

\* the slot opened at position i of the events is closed exactly once
\* after it
ClosedOnce(evs, i) ==
    Cardinality({j \in (i + 1)..Len(evs) :
                    /\ evs[j].type = EndOf(evs[i].type)
                    /\ evs[j].contentIndex = evs[i].contentIndex}) = 1

\* C38 as stated: when a call ends with done, every slot for which a start
\* event was emitted during the call (text, thinking, tool call) has had its
\* end event emitted exactly once before done, whatever chunks, retries and
\* timeouts led to done.
C38_EverySlotClosed ==
    (events # <<>> /\ Last(events).type = "done") =>
        \A i \in 1..Len(events) :
            events[i].type \in {"text_start", "thinking_start", "toolcall_start"} =>
                ClosedOnce(events, i)


\* C39 as stated: the spans of the matches parseBracketToolCalls accepts are
\* pairwise disjoint: text inside the arguments of an accepted call is never
\* extracted as a further call, and there are as many tool calls as
\* disjoint spans removed.
C39_AcceptedSpansDisjoint ==
    call.op = "bracket" =>
        /\ Len(call.result.toolCalls) = Len(call.removals)
        /\ \A i, j \in 1..Len(call.removals) :
              i < j => \/ call.removals[i].end <= call.removals[j].start
                       \/ call.removals[j].end <= call.removals[i].start


\* where the first open tag of any vocabulary starts in the text (-1 when
\* there is none)
OpenTagsAt(text) ==
    {i \in 0..Len(text) : \E v \in 1..Len(THINKING_TAG_VARIANTS) :
                              MatchAt(text, THINKING_TAG_VARIANTS[v].open, i)}

MinOrNull(S) == IF S = {} THEN -1 ELSE CHOOSE i \in S : \A j \in S : i <= j

FirstOpenAt(text) == MinOrNull(OpenTagsAt(text))

\* the text after the close tag, with or without a newline-newline at its
\* start
RestForms(rest) ==
    {rest} \cup (IF StartsWith(rest, <<"\n", "\n">>) THEN {SliceFrom(rest, 2)} ELSE {})

\* the forms of the part after the open tag v.open: without the first
\* occurrence (at q) of the paired close tag
AfterForms(after, v, q) ==
    IF q = -1 THEN {after}
    ELSE {Slice(after, 0, q) \o r : r \in RestForms(SliceFrom(after, q + Len(v.close)))}

\* the text without its first open tag (at p), the first occurrence after it
\* of the paired close tag and, in one of the two forms, a newline-newline
\* right after the close tag
WithoutTagsAt(text, p, v) ==
    {Slice(text, 0, p) \o a :
        a \in AfterForms(SliceFrom(text, p + Len(v.open)), v,
                         IndexOf(SliceFrom(text, p + Len(v.open)), v.close))}

WithoutTagsFrom(text, p) ==
    IF p = -1 THEN {text}
    ELSE WithoutTagsAt(text, p,
            THINKING_TAG_VARIANTS[CHOOSE v \in 1..Len(THINKING_TAG_VARIANTS) :
                                      MatchAt(text, THINKING_TAG_VARIANTS[v].open, p)])

WithoutTags(text) == WithoutTagsFrom(text, FirstOpenAt(text))

DataOf(ds) == Flatten([i \in 1..Len(ds) |-> ds[i].data])

AllDeltas(evs) ==
    DataOf(SelectSeq(evs, LAMBDA e : e.type \in {"text_delta", "thinking_delta"}))

\* C40: after any sequence of processChunk calls and finalize the buffer is
\* empty, and the deltas, thinking and text together in the order of their
\* emission, are the input without the matched open tag, its matched close
\* tag and the separator when it was consumed: no other character is
\* dropped, moved or emitted twice.
C40_Conservation ==
    call.op \in {"segment", "truncated", "foreign"} =>
        /\ call.result.p.textBuffer = <<>>
        /\ AllDeltas(call.result.ev) \in WithoutTags(call.text)

C40_Witness ==
    /\ call.op = "segment"
    /\ Len(call.chunks) = 2
    /\ Len(call.m.pre) = 13
    /\ Len(call.m.body) = 14
    /\ call.m.reopen # 0
    /\ StartsWith(PostOf(call.m), <<"\n", "\n">>)
    /\ call.cuts[1] < Len(call.m.pre)
    /\ Last(call.trace).p.textBuffer = <<>>
    /\ Cardinality(WithoutTags(call.text)) = 2
    /\ Len(AllDeltas(call.result.ev)) = Len(call.text) - Len(THINKING_TAG_VARIANTS[call.m.v].open) - Len(THINKING_TAG_VARIANTS[call.m.v].close) - 2

=============================================================================
